---- MODULE Spec2Model ----
(***************************************************************************)
(* The concurrent actuator-control core of the MERG scripts:                *)
(*   - queue.py: Queue (ring buffer) and CharBuffer (single slot), with     *)
(*     several producer tasks and one consumer task;                        *)
(*   - script_0_7.py: ServoGroup.match_demand fed from a DataBuffer;        *)
(*   - script_0_9a.py: ServoSG9x.set_on_off / stepper and match_demand, for *)
(*     the group of main() and for one servo constructed with any arguments *)
(*     (with the constructors of script_0_9.py and script_0_9b.py);         *)
(*   - script_0_8a.py: HwSwitch.get_state_db, HwSwitchGroup.get_states_db   *)
(*     and get_servo_demand;                                                *)
(*   - the loops that never end: Button.poll_input (script_0_10.py),        *)
(*     KeyPad.key_input (script_0_6a.py), set_servos (script_0_8.py) and    *)
(*     the stepper with the built-in motion profiles;                       *)
(*   - Queue.get called by two tasks, and put/get under a fair scheduler.   *)
(* Tasks are cooperative (uasyncio): an action runs one task from the point *)
(* where it was suspended to its next suspension point.                     *)
(***************************************************************************)
EXTENDS Integers, Sequences, FiniteSets, TLC

\* ------------------------------------------------------------------ bounds
MaxLen == 2        \* Queue capacities 1..MaxLen are explored
NProducers == 2    \* producer tasks
MaxPuts == 2       \* put() calls made by each producer
NServos == 2       \* servos in the group (pins 0 .. NServos - 1)
NSwitches == 2     \* switches wired (pins 16 .. 16 + NSwitches - 1)
MaxIters == 3      \* iterations followed of a loop that never ends

\* ------------------------------------------------------------- channel state
VARIABLES
  kind,     \* the class of the channel object: "Queue", "CharBuffer", ...
  q,        \* the channel object: its fields under their source names
  task,     \* position of every task (where it is suspended)
  sent,     \* producer -> number of put() calls it has completed
  putLog,   \* values written, in the order the puts completed
  gotLog,   \* values returned by get(), in order
  raised    \* TRUE once a channel call has raised

chvars == <<kind, q, task, sent, putLog, gotLog, raised>>

\* --------------------------------------------------------------- servo state
VARIABLES
  servo,       \* pin -> [state, pw_ns]: the ServoSG9x attributes that change
  pwm,         \* pin -> the duty last written with duty_ns()
  writes,      \* pin -> number of duty_ns() writes since the batch was taken
  mv,          \* pin -> the transition task of the batch in hand
  demand,      \* the batch match_demand is processing
  md,          \* match_demand: [rem |-> ms left of its sleep, result |-> ..]
  elapsed,     \* ms the gather of the batch in hand has been waiting
  startState   \* pin -> state when the batch in hand was taken

svvars == <<servo, pwm, writes, mv, demand, md, elapsed, startState>>

\* -------------------------------------------------------------- switch state
VARIABLES
  sw           \* the HwSwitchGroup, its switches and the task polling them

\* ---------------------------------------------------------------- loop state
VARIABLES
  lp           \* one polling or stepping loop: the task running it, with
               \* yields / awaits: suspensions / await points passed in the
               \* iteration in hand, last / last_awaits: in the one before,
               \* dry: some iteration ended without a suspension

\* ------------------------------------------------------------ button state
VARIABLES
  btn          \* task -> the local variables of poll_input / button_event

vars == <<chvars, svvars, sw, lp, btn>>

\* the switch part is idle in the specifications that do not use it
IdleSwitches == sw = <<>>

\* no lone loop is running in the specifications of the whole programs
IdleLoops == lp = <<>>

\* no button is polled in the specifications without buttons
IdleButtons == btn = <<>>

None == -1                      \* the initial content of every slot
Consumer == 0
Producers == 1 .. NProducers
Tasks == {Consumer} \cup Producers

\* the i-th value (i = 0, 1, ..) that producer p puts: fill_q(q_, n, m)
ItemOf(p, i) == 10 * p + i

RangeOf(seq) == {seq[i] : i \in 1 .. Len(seq)}

\* ---------------------------------------------------- uasyncio.Event / Lock
\* A state s is [q |-> channel object, task |-> positions, raised |-> flag].
\* Positions: "run" (not suspended), "lock_wait", "space_wait", "data_wait"
\* (suspended on put_lock / is_space / is_data) and the same with "_go" once
\* the task has been moved to the scheduler's run queue.

Woken(pos) ==
  CASE pos = "lock_wait"  -> "lock_go"
    [] pos = "space_wait" -> "space_go"
    [] pos = "data_wait"  -> "data_go"
    [] OTHER -> pos

\* faulty variant: set() that schedules only the first waiting task
Event_set_first(s, ev) ==
  LET w == IF s.q[ev].waiting = <<>> THEN {} ELSE {Head(s.q[ev].waiting)}
  IN [s EXCEPT !.q[ev] = [state |-> TRUE,
                          waiting |-> IF @.waiting = <<>> THEN <<>>
                                      ELSE Tail(@.waiting)],
               !.task = [t \in DOMAIN s.task |->
                           IF t \in w THEN Woken(s.task[t]) ELSE s.task[t]]]

\* Event.set(): schedule every waiting task, then state = True
Event_set(s, ev) ==
  LET w == RangeOf(s.q[ev].waiting)
  IN [s EXCEPT !.q[ev] = [state |-> TRUE, waiting |-> <<>>],
               !.task = [t \in DOMAIN s.task |->
                           IF t \in w THEN Woken(s.task[t]) ELSE s.task[t]]]

\* Event.clear()
Event_clear(s, ev) == [s EXCEPT !.q[ev].state = FALSE]

\* Event.wait() when the event is clear: queue the task and suspend
Event_suspend(s, ev, t, pos) ==
  [s EXCEPT !.q[ev].waiting = Append(@, t), !.task[t] = pos]

\* faulty variant: release() that frees the lock and schedules no waiter
Lock_release_no_handover(s) ==
  IF s.q.put_lock.state # 1 THEN [s EXCEPT !.raised = TRUE]
  ELSE [s EXCEPT !.q.put_lock.state = 0]

\* Lock.release(): hand the lock to the first waiter (state = that Task,
\* written 2 here) or free it; RuntimeError when the lock is not held
Lock_release(s) ==
  IF s.q.put_lock.state # 1 THEN [s EXCEPT !.raised = TRUE]
  ELSE IF s.q.put_lock.waiting # <<>>
  THEN LET t == Head(s.q.put_lock.waiting)
       IN [s EXCEPT !.q.put_lock = [state |-> 2, waiting |-> Tail(@.waiting)],
                    !.task[t] = Woken(s.task[t])]
  ELSE [s EXCEPT !.q.put_lock.state = 0]

\* Lock.acquire() when the lock is not free: queue the task and suspend
Lock_suspend(s, t) ==
  [s EXCEPT !.q.put_lock.waiting = Append(@, t), !.task[t] = "lock_wait"]

\* Lock.acquire() completing: state = 1
Lock_take(s) == [s EXCEPT !.q.put_lock.state = 1]

\* ------------------------------------------------------------ queue.Queue
\* (i + 1) % self.length
NextIndex(i, len) == (i + 1) % len

\* faulty variant: the full test made before next is advanced
Queue_put_write_early_test(s, item) ==
  LET n  == NextIndex(s.q.next, s.q.length)
      s1 == [s EXCEPT !.q.queue[s.q.next] = item, !.q.next = n]
      s2 == IF s.q.next = s1.q.head THEN Event_clear(s1, "is_space") ELSE s1
  IN Event_set(s2, "is_data")

\* put(), lines 32-36: write, advance next, flags
Queue_put_write(s, item) ==
  LET n  == NextIndex(s.q.next, s.q.length)
      s1 == [s EXCEPT !.q.queue[s.q.next] = item, !.q.next = n]
      s2 == IF n = s1.q.head THEN Event_clear(s1, "is_space") ELSE s1
  IN Event_set(s2, "is_data")

\* get(), lines 43-47: advance head, flags (the item is read before)
Queue_get_read(s) ==
  LET h  == NextIndex(s.q.head, s.q.length)
      s1 == [s EXCEPT !.q.head = h]
      s2 == IF h = s1.q.next THEN Event_clear(s1, "is_data") ELSE s1
  IN Event_set(s2, "is_space")

\* faulty variant: the slot read after head has been advanced
Queue_item_after_advance(obj) == obj.queue[NextIndex(obj.head, obj.length)]

\* get(), line 43: item = self.queue[self.head]
Queue_item(obj) == obj.queue[obj.head]

\* -------------------------------------------------------- queue.CharBuffer
\* faulty variant: put() that leaves is_space set after filling the slot
CharBuffer_put_write_keeps_space(s, item) ==
  Event_set([s EXCEPT !.q.item = item], "is_data")

\* put(), lines 88-90
CharBuffer_put_write(s, item) ==
  Event_clear(Event_set([s EXCEPT !.q.item = item], "is_data"), "is_space")

\* faulty variant: get() that leaves is_data set
CharBuffer_get_read_keeps_data(s) == Event_set(s, "is_space")

\* get(), lines 97-98
CharBuffer_get_read(s) == Event_clear(Event_set(s, "is_space"), "is_data")

CharBuffer_item(obj) == obj.item

\* CharBuffer.put, lines 82-90, resumed by task t at position pos
CharBuffer_put(s, t, item, pos) ==
  LET finish(s1) ==
        Lock_release([CharBuffer_put_write(s1, item) EXCEPT !.task[t] = "run"])
      locked(s1) ==
        IF s1.q.is_space.state THEN finish(s1)
        ELSE Event_suspend(s1, "is_space", t, "space_wait")
  IN CASE pos = "run" ->
            IF s.q.put_lock.state # 0 THEN Lock_suspend(s, t)
            ELSE locked(Lock_take(s))
       [] pos = "lock_go" -> locked(Lock_take([s EXCEPT !.task[t] = "run"]))
       [] pos = "space_go" -> finish(s)

\* CharBuffer.get, lines 92-99, resumed by task t at position pos
CharBuffer_get(s, t, pos) ==
  LET finish == [CharBuffer_get_read(s) EXCEPT !.task[t] = "run"]
  IN CASE pos = "run" ->
            IF s.q.is_data.state THEN finish
            ELSE Event_suspend(s, "is_data", t, "data_wait")
       [] pos = "data_go" -> finish

\* ---------------------------------------------------- script_0_7.DataBuffer
\* faulty variant: put() that leaves is_space set
DataBuffer_put_write_keeps_space(s, item) ==
  Event_set([s EXCEPT !.q.item = item], "is_data")

\* put(), lines 211-213
DataBuffer_put_write(s, item) ==
  Event_set(Event_clear([s EXCEPT !.q.item = item], "is_space"), "is_data")

\* get(), lines 218-219
DataBuffer_get_read(s) == Event_set(Event_clear(s, "is_data"), "is_space")

DataBuffer_item(obj) == obj.item

\* --------------------------------------------------- script_0_6a.KeyBuffer
\* put(), lines 29-31
KeyBuffer_put_write(s, item) ==
  Event_clear(Event_set([s EXCEPT !.q.item = item], "is_data"), "is_space")

\* get(), lines 36-37
KeyBuffer_get_read(s) == Event_clear(Event_set(s, "is_space"), "is_data")

KeyBuffer_item(obj) == obj.item

\* ------------------------------------------------------- put() / get() flow
PutWrite(s, item) ==
  CASE kind = "Queue" -> Queue_put_write(s, item)
    [] kind = "CharBuffer" -> CharBuffer_put_write(s, item)
    [] kind = "DataBuffer" -> DataBuffer_put_write(s, item)
    [] kind = "KeyBuffer" -> KeyBuffer_put_write(s, item)

\* put() once is_space.wait() has returned: write, leave the lock, return
PutFinish(s, t, item) ==
  Lock_release([PutWrite(s, item) EXCEPT !.task[t] = "run"])

\* faulty variant: put() that does not wait for space
PutLockedNoWait(s, t, item) == PutFinish(s, t, item)

\* faulty variant: put() that raises when it finds no space (a put_nowait)
PutLockedOrRaise(s, t, item) ==
  IF s.q.is_space.state THEN PutFinish(s, t, item)
  ELSE [s EXCEPT !.raised = TRUE]

\* faulty variant: put() that gives the lock up while it waits for space
PutLockedFreesLock(s, t, item) ==
  IF s.q.is_space.state THEN PutFinish(s, t, item)
  ELSE Lock_release(Event_suspend(s, "is_space", t, "space_wait"))

\* put() once the lock is held: await self.is_space.wait()
PutLocked(s, t, item) ==
  IF s.q.is_space.state THEN PutFinish(s, t, item)
  ELSE Event_suspend(s, "is_space", t, "space_wait")

\* faulty variant: put() that takes put_lock without waiting for it
PutEnterNoLock(s, t, item) == PutLocked(Lock_take(s), t, item)

\* put() from its call: async with self.put_lock
PutEnter(s, t, item) ==
  IF s.q.put_lock.state # 0 THEN Lock_suspend(s, t)
  ELSE PutLocked(Lock_take(s), t, item)

GetRead(s) ==
  CASE kind = "Queue" -> Queue_get_read(s)
    [] kind = "CharBuffer" -> CharBuffer_get_read(s)
    [] kind = "DataBuffer" -> DataBuffer_get_read(s)
    [] kind = "KeyBuffer" -> KeyBuffer_get_read(s)

GetItem(obj) ==
  CASE kind = "Queue" -> Queue_item(obj)
    [] kind = "CharBuffer" -> CharBuffer_item(obj)
    [] kind = "DataBuffer" -> DataBuffer_item(obj)
    [] kind = "KeyBuffer" -> KeyBuffer_item(obj)

\* get() once is_data.wait() has returned
GetFinish(s, t) == [GetRead(s) EXCEPT !.task[t] = "run"]

\* faulty variant: get() that does not wait for data
GetEnterNoWait(s, t) == GetFinish(s, t)

\* get() from its call: await self.is_data.wait()
GetEnter(s, t) ==
  IF s.q.is_data.state THEN GetFinish(s, t)
  ELSE Event_suspend(s, "is_data", t, "data_wait")

Cur == [q |-> q, task |-> task, raised |-> raised]

\* commit the state a producer's step ends in; the put has completed when
\* the producer is back at "run"
CommitPut(s, p) ==
  /\ q' = s.q /\ task' = s.task /\ raised' = s.raised
  /\ IF s.task[p] = "run" /\ ~s.raised
     THEN /\ sent' = [sent EXCEPT ![p] = @ + 1]
          /\ putLog' = Append(putLog, ItemOf(p, sent[p]))
     ELSE UNCHANGED <<sent, putLog>>
  /\ UNCHANGED <<btn, lp, sw, kind, gotLog, svvars>>

CommitGet(s, c) ==
  /\ q' = s.q /\ task' = s.task /\ raised' = s.raised
  /\ IF s.task[c] = "run"
     THEN gotLog' = Append(gotLog, GetItem(q))
     ELSE UNCHANGED gotLog
  /\ UNCHANGED <<btn, lp, sw, kind, sent, putLog, svvars>>

\* a producer calls put(item)
Put(p) ==
  /\ task[p] = "run" /\ sent[p] < MaxPuts /\ ~raised
  /\ CommitPut(PutEnter(Cur, p, ItemOf(p, sent[p])), p)

\* a producer resumes in put() after being handed the lock
PutAfterLock(p) ==
  /\ task[p] = "lock_go" /\ ~raised
  /\ CommitPut(PutLocked(Lock_take([Cur EXCEPT !.task[p] = "run"]), p,
                         ItemOf(p, sent[p])), p)

\* a producer resumes in put() after is_space.wait()
PutAfterSpace(p) ==
  /\ task[p] = "space_go" /\ ~raised
  /\ CommitPut(PutFinish(Cur, p, ItemOf(p, sent[p])), p)

\* the consumer calls get()
Get(c) ==
  /\ task[c] = "run" /\ ~raised
  /\ Len(gotLog) < NProducers * MaxPuts
  /\ CommitGet(GetEnter(Cur, c), c)

\* the consumer resumes in get() after is_data.wait()
GetAfterData(c) ==
  /\ task[c] = "data_go" /\ ~raised
  /\ CommitGet(GetFinish(Cur, c), c)

NewEvent(set) == [state |-> set, waiting |-> <<>>]

\* the classes with one slot (_item) instead of a ring
SingleSlot == {"CharBuffer", "KeyBuffer", "DataBuffer"}

\* Queue.__init__ / CharBuffer.__init__ / KeyBuffer.__init__ /
\* DataBuffer.__init__
InitChannel ==
  /\ kind \in {"Queue"} \cup SingleSlot
  /\ \E len \in 1 .. MaxLen :
       /\ kind \in SingleSlot => len = 1
       /\ q = [length |-> len, queue |-> [i \in 0 .. len - 1 |-> None],
               head |-> 0, next |-> 0, item |-> None,
               is_data |-> NewEvent(FALSE), is_space |-> NewEvent(TRUE),
               put_lock |-> [state |-> 0, waiting |-> <<>>]]
  /\ task = [t \in Tasks |-> "run"]
  /\ sent = [p \in Producers |-> 0]
  /\ putLog = <<>> /\ gotLog = <<>> /\ raised = FALSE

NextChannel ==
  \/ \E p \in Producers : Put(p)
  \/ \E p \in Producers : PutAfterLock(p)
  \/ \E p \in Producers : PutAfterSpace(p)
  \/ Get(Consumer)
  \/ GetAfterData(Consumer)

\* ------------------------------------------- a Queue read by two consumers
SecondConsumer == NProducers + 1
Consumers2 == {Consumer, SecondConsumer}

\* faulty variant: q_len without the is_data test when head = next
Queue_q_len_no_full(obj) == (obj.next - obj.head) % obj.length

\* Queue.q_len, lines 50-57
Queue_q_len(obj) ==
  IF obj.head = obj.next
  THEN IF obj.is_data.state THEN obj.length ELSE 0
  ELSE (obj.next - obj.head) % obj.length

\* Queue.__init__, with two tasks that will call get()
InitTwoConsumers ==
  /\ kind = "Queue"
  /\ \E len \in 1 .. MaxLen :
       q = [length |-> len, queue |-> [i \in 0 .. len - 1 |-> None],
            head |-> 0, next |-> 0, item |-> None,
            is_data |-> NewEvent(FALSE), is_space |-> NewEvent(TRUE),
            put_lock |-> [state |-> 0, waiting |-> <<>>]]
  /\ task = [t \in Tasks \cup Consumers2 |-> "run"]
  /\ sent = [p \in Producers |-> 0]
  /\ putLog = <<>> /\ gotLog = <<>> /\ raised = FALSE

NextTwoConsumers ==
  \/ \E p \in Producers : Put(p)
  \/ \E p \in Producers : PutAfterLock(p)
  \/ \E p \in Producers : PutAfterSpace(p)
  \/ \E c \in Consumers2 : Get(c)
  \/ \E c \in Consumers2 : GetAfterData(c)

\* the channel object is absent from the specifications that have none
IdleChannelBut ==
  /\ kind = "none" /\ q = <<>> /\ sent = <<>>
  /\ putLog = <<>> /\ gotLog = <<>> /\ raised = FALSE

\* =================================================== script_0_7: the servos
OFF == 0
ON == 1
PW_CTR == 1500000
PW_MIN == 500000
PW_MAX == 2500000
DEG_MIN == 0
DEG_MAX == 180
NS_PER_DEGREE == 11111
x_steps == 100
BatchPause == 1000    \* await asyncio.sleep_ms(1000) at the end of a batch

Servos == 0 .. NServos - 1
Producer7 == 1        \* SwitchGroup.run_states, the only producer

\* main(): servo_params, pin -> (off_deg, on_deg, transition ms); odd pins
\* are given a shorter transition time than the default
servo_params(id) ==
  IF id % 2 = 0 THEN <<45, 135, 3000>> ELSE <<135, 45, 2000>>

\* faulty variant: the conversion without its test of the range
degrees_to_ns_unchecked(degrees) == PW_MIN + (degrees - DEG_MIN) * NS_PER_DEGREE

\* faulty variant: the upper limit DEG_MAX itself taken as out of range
degrees_to_ns_below_max(degrees) ==
  IF DEG_MIN <= degrees /\ degrees < DEG_MAX
  THEN PW_MIN + (degrees - DEG_MIN) * NS_PER_DEGREE
  ELSE PW_CTR

degrees_to_ns(degrees) ==
  IF DEG_MIN <= degrees /\ degrees <= DEG_MAX
  THEN PW_MIN + (degrees - DEG_MIN) * NS_PER_DEGREE
  ELSE PW_CTR

off_ns(id) == degrees_to_ns(servo_params(id)[1])
on_ns(id) == degrees_to_ns(servo_params(id)[2])
transition_ms(id) == servo_params(id)[3]
step_ms(id) == transition_ms(id) \div x_steps

\* ServoSG9x.set_on / set_off as left by ServoGroup.initialise
Initialised(v) ==
  [id \in Servos |-> [state |-> v[id],
                      pw_ns |-> IF v[id] = ON THEN on_ns(id) ELSE off_ns(id)]]

NoTask ==
  [pc |-> "none", op |-> "none", pw |-> 0, inc_ns |-> 0, demand_ns |-> 0,
   n |-> 0, rem |-> 0, result |-> None]

\* the demand batches: SwitchGroup.get_servo_demand gives every servo the
\* state (0 or 1) of the switch it is bound to
Batches == [Servos -> {OFF, ON}]

\* faulty variant: match_demand without the test for a servo already at its demand
TaskForAlways(srv_demand, state) ==
  IF srv_demand = ON THEN "move_on"
  ELSE IF srv_demand = OFF THEN "move_off" ELSE "none"

\* match_demand, lines 140-145: the coroutine appended for one servo
TaskFor(srv_demand, state) ==
  IF srv_demand = state THEN "none"
  ELSE IF srv_demand = ON THEN "move_on"
  ELSE IF srv_demand = OFF THEN "move_off" ELSE "none"

\* faulty variant: the coroutines awaited one after the other
GatherRunnableInTurn(m) ==
  {id \in Servos : /\ m[id].pc = "created"
                   /\ \A j \in Servos : j < id => m[j].pc \in {"none", "done"}}

\* asyncio.gather(*tasks): every coroutine becomes a task of its own, all
\* of them scheduled at once
GatherRunnable(m) == {id \in Servos : m[id].pc = "created"}

\* faulty variant: the gather returning with the first task that finishes
GatherAnyDone(m) == \E id \in Servos : m[id].pc = "done"

\* faulty variant: the gather not waiting for the first task of its list
GatherRestDone(m) ==
  \A id \in Servos \ {0} : m[id].pc \in {"none", "done"}

\* asyncio.gather(*tasks) returns when every task has finished
GatherDone(m) == \A id \in Servos : m[id].pc \in {"none", "done"}

\* match_demand, lines 134-148, once buffer.get() has returned dem: build
\* the task list and gather it (an empty gather returns at once)
MDProcess(s, dem) ==
  LET m == [id \in Servos |->
              IF TaskFor(dem[id], servo[id].state) = "none" THEN NoTask
              ELSE [NoTask EXCEPT !.pc = "created",
                                  !.op = TaskFor(dem[id], servo[id].state)]]
      none == \A id \in Servos : m[id].pc = "none"
  IN /\ q' = s.q /\ raised' = s.raised
     /\ task' = [s.task EXCEPT ![Consumer] = IF none THEN "sleep" ELSE "gather"]
     /\ demand' = dem
     /\ mv' = m
     /\ md' = [rem |-> IF none THEN BatchPause ELSE 0, result |-> <<>>]
     /\ elapsed' = 0
     /\ writes' = [id \in Servos |-> 0]
     /\ startState' = [id \in Servos |-> servo[id].state]
     /\ UNCHANGED <<btn, lp, sw, kind, sent, putLog, gotLog, servo, pwm>>

\* match_demand reaches `await self.buffer.get()`: at its start and each
\* time its sleep at the end of a batch is over
MDGet ==
  /\ \/ task[Consumer] = "run"
     \/ task[Consumer] = "sleep" /\ md.rem = 0
  /\ LET s == GetEnter([Cur EXCEPT !.task[Consumer] = "run"], Consumer)
     IN IF s.task[Consumer] = "run" THEN MDProcess(s, GetItem(q))
        ELSE /\ q' = s.q /\ task' = s.task /\ raised' = s.raised
             /\ UNCHANGED <<btn, lp, sw, kind, sent, putLog, gotLog, svvars>>

\* match_demand resumes in buffer.get()
MDGetAfterData ==
  /\ task[Consumer] = "data_go"
  /\ MDProcess(GetFinish(Cur, Consumer), GetItem(q))

\* move_servo, lines 94-99, with n passes of the loop made: one more pass,
\* or the precise final setting, and the sleep that follows
MoveAdvance(m, id) ==
  IF m.n < x_steps - 1
  THEN [m EXCEPT !.pc = "loop", !.pw = @ + m.inc_ns, !.n = @ + 1,
                 !.rem = step_ms(id)]
  ELSE [m EXCEPT !.pc = "final", !.pw = m.demand_ns, !.rem = step_ms(id)]

\* a transition task starts: move_on / move_off call move_servo, which
\* restores the pulse and runs to its first sleep
MoveStart(id) ==
  /\ id \in GatherRunnable(mv)
  /\ LET dns == IF mv[id].op = "move_on" THEN on_ns(id) ELSE off_ns(id)
         pw0 == servo[id].pw_ns
         m0  == [mv[id] EXCEPT !.pw = pw0, !.demand_ns = dns,
                               !.inc_ns = (dns - pw0) \div x_steps]
         m1  == MoveAdvance(m0, id)
     IN /\ mv' = [mv EXCEPT ![id] = m1]
        /\ pwm' = [pwm EXCEPT ![id] = m1.pw]
        /\ writes' = [writes EXCEPT ![id] = @ + 2]
  /\ UNCHANGED <<btn, lp, sw, chvars, servo, demand, md, elapsed, startState>>

\* a transition task wakes from a sleep inside the loop
MoveStep(id) ==
  /\ mv[id].pc = "loop" /\ mv[id].rem = 0
  /\ LET m1 == MoveAdvance(mv[id], id)
     IN /\ mv' = [mv EXCEPT ![id] = m1]
        /\ pwm' = [pwm EXCEPT ![id] = m1.pw]
        /\ writes' = [writes EXCEPT ![id] = @ + 1]
  /\ UNCHANGED <<btn, lp, sw, chvars, servo, demand, md, elapsed, startState>>

\* a transition task wakes from its last sleep: move_servo lines 100-102,
\* then move_on / move_off set the state and return
MoveFinish(id) ==
  /\ mv[id].pc = "final" /\ mv[id].rem = 0
  /\ LET st == IF mv[id].op = "move_on" THEN ON ELSE OFF
         m  == [mv EXCEPT ![id].pc = "done", ![id].result = st]
     IN /\ mv' = m
        /\ servo' = [servo EXCEPT ![id] = [state |-> st, pw_ns |-> mv[id].demand_ns]]
        /\ task' = [task EXCEPT ![Consumer] =
                      IF @ = "gather" /\ GatherDone(m) THEN "gather_go" ELSE @]
  /\ pwm' = [pwm EXCEPT ![id] = 0]
  /\ writes' = [writes EXCEPT ![id] = @ + 1]
  /\ UNCHANGED <<btn, lp, sw, kind, q, sent, putLog, gotLog, raised, demand, md, elapsed,
                 startState>>

\* match_demand resumes after the gather: print(result), sleep_ms(1000)
MDAfterGather ==
  /\ task[Consumer] = "gather_go"
  /\ task' = [task EXCEPT ![Consumer] = "sleep"]
  /\ md' = [rem |-> BatchPause,
            result |-> [id \in {i \in Servos : mv[i].pc = "done"} |-> mv[id].result]]
  /\ UNCHANGED <<btn, lp, sw, kind, q, sent, putLog, gotLog, raised, servo, pwm, writes, mv,
                 demand, elapsed, startState>>

\* run_states: await self.data_buffer.put(demand), from the call
RunStatesPut ==
  /\ task[Producer7] = "run"
  /\ \E b \in Batches :
       LET s == PutEnter(Cur, Producer7, b)
       IN q' = s.q /\ task' = s.task /\ raised' = s.raised
  /\ UNCHANGED <<btn, lp, sw, kind, sent, putLog, gotLog, svvars>>

\* run_states resumes in put() after is_space.wait() (the batch it holds is
\* any batch: it is drawn here, when it is written)
RunStatesPutAfterSpace ==
  /\ task[Producer7] = "space_go"
  /\ \E b \in Batches :
       LET s == PutFinish(Cur, Producer7, b)
       IN q' = s.q /\ task' = s.task /\ raised' = s.raised
  /\ UNCHANGED <<btn, lp, sw, kind, sent, putLog, gotLog, svvars>>

\* the tasks asleep on a timer, and the time left to each
Sleepers7 ==
  {mv[id].rem : id \in {i \in Servos : mv[i].pc \in {"loop", "final"}}}
    \cup (IF task[Consumer] = "sleep" THEN {md.rem} ELSE {})

MinOf(S) == CHOOSE x \in S : \A y \in S : x <= y

\* no task is ready to run: time passes until the first timer is due
Tick7 ==
  /\ task[Producer7] \in {"space_wait", "lock_wait"}
  /\ task[Consumer] \in {"data_wait", "gather", "sleep"}
  /\ GatherRunnable(mv) = {}
  /\ Sleepers7 # {} /\ 0 \notin Sleepers7
  /\ LET dt == MinOf(Sleepers7)
     IN /\ mv' = [id \in Servos |->
                    IF mv[id].pc \in {"loop", "final"}
                    THEN [mv[id] EXCEPT !.rem = @ - dt] ELSE mv[id]]
        /\ md' = IF task[Consumer] = "sleep" THEN [md EXCEPT !.rem = @ - dt] ELSE md
        /\ elapsed' = IF task[Consumer] = "gather" THEN elapsed + dt ELSE elapsed
  /\ UNCHANGED <<btn, lp, sw, chvars, servo, pwm, writes, demand, startState>>

\* DataBuffer.__init__, ServoGroup.__init__ and ServoGroup.initialise, with
\* the two tasks of main() not yet run
Init7 ==
  /\ IdleSwitches /\ IdleLoops /\ IdleButtons
  /\ kind = "DataBuffer"
  /\ q = [item |-> None,
          is_data |-> NewEvent(FALSE), is_space |-> NewEvent(TRUE),
          put_lock |-> [state |-> 0, waiting |-> <<>>]]
  /\ task = [t \in {Consumer, Producer7} |-> "run"]
  /\ sent = <<>> /\ putLog = <<>> /\ gotLog = <<>> /\ raised = FALSE
  /\ \E v \in [Servos -> {OFF, ON}] :
       /\ servo = Initialised(v)
       /\ startState = v
  /\ pwm = [id \in Servos |-> 0]
  /\ writes = [id \in Servos |-> 0]
  /\ mv = [id \in Servos |-> NoTask]
  /\ demand = <<>>
  /\ md = [rem |-> 0, result |-> <<>>]
  /\ elapsed = 0

Next7 ==
  \/ MDGet
  \/ MDGetAfterData
  \/ MDAfterGather
  \/ \E id \in Servos : MoveStart(id)
  \/ \E id \in Servos : MoveStep(id)
  \/ \E id \in Servos : MoveFinish(id)
  \/ RunStatesPut
  \/ RunStatesPutAfterSpace
  \/ Tick7

Spec7 == Init7 /\ [][Next7]_vars

\* ================================================ script_0_9a: the servos
\* A servo constructed on its own, outside main(): its pin number, from 100
\* up, stands for the arguments it is constructed with. The angles include
\* both limits, pairs one degree apart and one angle past each limit; the
\* motions are the named ones and a name that is not in motion_set.
LoneAngles == <<-1, 0, 1, 45, 46, 135, 180, 181>>
LoneMotions ==
  <<"linear", "overshoot", "bounce", "s_curve", "slowing", "semaphore", "wobble">>
LonePins == 100 .. 100 + Len(LoneAngles) * Len(LoneAngles) * Len(LoneMotions) - 1
LoneOffDeg(id) == LoneAngles[((id - 100) \div (Len(LoneAngles) * Len(LoneMotions))) + 1]
LoneOnDeg(id) == LoneAngles[(((id - 100) \div Len(LoneMotions)) % Len(LoneAngles)) + 1]
LoneMotion(id) == LoneMotions[((id - 100) % Len(LoneMotions)) + 1]
\* ServoSG9x(pin, off_deg, on_deg, motion=..): transition_time is the default
LoneParams(id) == <<LoneOffDeg(id), LoneOnDeg(id), 3000, LoneMotion(id)>>

\* main(): servo_params, pin -> [off_deg, on_deg, transition ms, motion]
servo_params9a(id) ==
  CASE id = 0 -> <<45, 135, 3000, "s_curve">>
    [] id = 1 -> <<135, 45, 3000, "s_curve">>
    [] id = 2 -> <<45, 135, 3000, "slowing">>
    [] id = 3 -> <<45, 135, 2000, "semaphore">>
    [] OTHER  -> LoneParams(id)

motion_set == {"linear", "overshoot", "bounce", "s_curve", "slowing", "semaphore"}

\* faulty variant: a table whose 'overshoot' repeats an x checkpoint
motion_coords_repeated_x(motion) ==
  CASE motion = "linear" -> << <<100, 100>> >>
    [] motion = "overshoot" ->
         << <<60, 110>>, <<70, 95>>, <<70, 103>>, <<90, 98>>, <<100, 100>> >>
    [] motion = "bounce" ->
         << <<60, 100>>, <<70, 90>>, <<80, 100>>, <<90, 95>>, <<100, 100>> >>
    [] motion = "s_curve" -> << <<35, 20>>, <<65, 80>>, <<100, 100>> >>
    [] motion = "slowing" -> << <<25, 54>>, <<50, 81>>, <<75, 95>>, <<100, 100>> >>

motion_coords(motion) ==
  CASE motion = "linear" -> << <<100, 100>> >>
    [] motion = "overshoot" ->
         << <<60, 110>>, <<70, 95>>, <<80, 103>>, <<90, 98>>, <<100, 100>> >>
    [] motion = "bounce" ->
         << <<60, 100>>, <<70, 90>>, <<80, 100>>, <<90, 95>>, <<100, 100>> >>
    [] motion = "s_curve" -> << <<35, 20>>, <<65, 80>>, <<100, 100>> >>
    [] motion = "slowing" -> << <<25, 54>>, <<50, 81>>, <<75, 95>>, <<100, 100>> >>

\* script_0_9.py: the angle is brought into range first (deg_in_range), then
\* converted without a test
DEG_CTR == 90
deg_in_range_09(degrees_) ==
  IF DEG_MIN <= degrees_ /\ degrees_ <= DEG_MAX THEN degrees_ ELSE DEG_CTR
degrees_to_ns_09(degrees) == PW_MIN + (degrees - DEG_MIN) * NS_PER_DEGREE
off_ns09(id) == degrees_to_ns_09(deg_in_range_09(servo_params9a(id)[1]))
on_ns09(id) == degrees_to_ns_09(deg_in_range_09(servo_params9a(id)[2]))

\* ServoSG9x.__init__, lines 59-80
Motion9a(id) ==
  IF servo_params9a(id)[4] \notin motion_set THEN "linear" ELSE servo_params9a(id)[4]

off_ns9a(id) == degrees_to_ns(servo_params9a(id)[1])
on_ns9a(id) == degrees_to_ns(servo_params9a(id)[2])
step_ms9a(id) == servo_params9a(id)[3] \div x_steps
pw_on_inc(id) == (on_ns9a(id) - off_ns9a(id)) \div x_steps
pw_off_inc(id) == - pw_on_inc(id)
on_coords(id) ==
  motion_coords(IF Motion9a(id) = "semaphore" THEN "overshoot" ELSE Motion9a(id))
\* faulty variant: the profile of the move to ON bound for the move to OFF
off_coords_as_on(id) == on_coords(id)

off_coords(id) ==
  motion_coords(IF Motion9a(id) = "semaphore" THEN "bounce" ELSE Motion9a(id))

\* the outcome of a look-up in motion_coords that raises KeyError: no
\* checkpoints are bound
KeyError == <<>>

\* script_0_9b.py: the table of profiles; a name that is not a key raises
\* KeyError
motion_coords9b(motion) ==
  CASE motion = "linear" -> << <<100, 100>> >>
    [] motion = "overshoot" ->
         << <<60, 110>>, <<70, 95>>, <<80, 105>>, <<90, 95>>, <<100, 100>> >>
    [] motion = "bounce" ->
         << <<60, 100>>, <<70, 90>>, <<80, 100>>, <<90, 95>>, <<100, 100>> >>
    [] motion = "s_curve" -> << <<35, 20>>, <<65, 80>>, <<100, 100>> >>
    [] motion = "slowing" ->
         << <<10, 30>>, <<20, 55>>, <<40, 79>>, <<60, 91>>, <<80, 97>>, <<100, 100>> >>
    [] OTHER -> KeyError

\* script_0_9b.py, ServoSG9x.__init__ lines 68-76: the name is not tested
\* against the table before it is looked up
on_coords9b(id) ==
  motion_coords9b(IF servo_params9a(id)[4] = "semaphore" THEN "overshoot"
                  ELSE servo_params9a(id)[4])
off_coords9b(id) ==
  motion_coords9b(IF servo_params9a(id)[4] = "semaphore" THEN "bounce"
                  ELSE servo_params9a(id)[4])

\* script_0_9.py: the table of profiles, and ServoSG9x.__init__ lines 60-63:
\* one profile for both directions, 'linear' for a name not in the table
motion_coords09(motion) ==
  CASE motion = "linear" -> << <<100, 100>> >>
    [] motion = "overshoot" -> << <<50, 110>>, <<65, 120>>, <<90, 90>>, <<100, 100>> >>
    [] motion = "bounce" ->
         << <<50, 100>>, <<62, 75>>, <<75, 100>>, <<88, 90>>, <<100, 100>> >>
    [] motion = "s_curve" -> << <<35, 20>>, <<65, 80>>, <<100, 100>> >>
    [] motion = "slowing" -> << <<25, 54>>, <<50, 81>>, <<75, 95>>, <<100, 100>> >>
    [] OTHER -> KeyError

coords09(id) ==
  IF motion_coords09(servo_params9a(id)[4]) # KeyError
  THEN motion_coords09(servo_params9a(id)[4])
  ELSE motion_coords09("linear")

Initialised9a(v) ==
  [id \in Servos |-> [state |-> v[id],
                      pw_ns |-> IF v[id] = 1 THEN on_ns9a(id) ELSE off_ns9a(id)]]

\* the guard of ServoSG9x.move_servo, line 92
InRange(pw_) == PW_MIN <= pw_ /\ pw_ <= PW_MAX

\* one duty_ns(pw_) call applied to a task record. Besides the duty and the
\* number of writes the record keeps, of the duties written in the call of
\* set_on_off: the first, the last other than the closing 0, and whether the
\* target final_ns was among them.
duty_ns(m, pw_) ==
  [m EXCEPT !.duty = pw_, !.nw = @ + 1,
            !.w_first = IF m.nw = 0 THEN pw_ ELSE @,
            !.w_last = pw_,
            !.hit = @ \/ pw_ = m.final_ns]

\* faulty variant: move_servo without its guard
move_servo_unguarded(m, pw_) == duty_ns(m, pw_)

\* move_servo(pw_) applied to a task record: the write is made only in
\* range; a value out of range is dropped (counted in drops)
move_servo(m, pw_) ==
  IF InRange(pw_) THEN duty_ns(m, pw_) ELSE [m EXCEPT !.drops = @ + 1]

NoTask9a ==
  [pc |-> "none", demand_ |-> None, pw_inc |-> 0, final_ns |-> 0,
   coords |-> <<>>, start_pw |-> 0, k |-> 0, x |-> 0, x_0 |-> 0, y_0 |-> 0,
   pw_ |-> 0, segment_pw_inc |-> 0, rem |-> 0, duty |-> 0, nw |-> 0,
   w_first |-> None, w_last |-> None, hit |-> FALSE, drops |-> 0, sleeps |-> 0,
   result |-> None]

\* faulty variant: a segment that starts from the last value of the segment
\* before it instead of pw_0 + start_pw
StepperSegmentCarry(m, k) ==
  LET x1 == m.coords[k][1]
      y1 == m.coords[k][2]
      pw_0 == m.pw_inc * m.y_0
      pw_1 == m.pw_inc * y1
  IN [m EXCEPT !.k = k,
               !.segment_pw_inc = (pw_1 - pw_0) \div (x1 - m.x_0),
               !.pw_ = IF k = 1 THEN m.start_pw ELSE m.pw_,
               !.x = m.x_0]

\* stepper, lines 116-120: the set-up of segment k of the profile
StepperSegment(m, k) ==
  LET x1 == m.coords[k][1]
      y1 == m.coords[k][2]
      pw_0 == m.pw_inc * m.y_0
      pw_1 == m.pw_inc * y1
  IN [m EXCEPT !.k = k,
               !.segment_pw_inc = (pw_1 - pw_0) \div (x1 - m.x_0),
               !.pw_ = pw_0 + m.start_pw,
               !.x = m.x_0]

RECURSIVE StepperRun(_, _)
\* stepper, lines 121-127, from the test of the while loop: one more step
\* and its sleep, or on to the next segment, or the end of the profile
StepperRun(m, id) ==
  IF m.x < m.coords[m.k][1]
  THEN [move_servo([m EXCEPT !.x = @ + 1, !.pw_ = @ + m.segment_pw_inc],
                   m.pw_ + m.segment_pw_inc)
          EXCEPT !.pc = "step", !.rem = step_ms9a(id), !.sleeps = @ + 1]
  ELSE LET m1 == [m EXCEPT !.x_0 = m.coords[m.k][1], !.y_0 = m.coords[m.k][2]]
       IN IF m.k = Len(m.coords) THEN [m1 EXCEPT !.pc = "stepped"]
          ELSE StepperRun(StepperSegment(m1, m.k + 1), id)

\* faulty variant: set_on_off without the test for a demand equal to the state
SetOnOffPlanAlways(id, demand_, state) ==
  IF demand_ = OFF
  THEN [move |-> TRUE, pw_inc |-> pw_off_inc(id), final_ns |-> off_ns9a(id),
        coords |-> off_coords(id)]
  ELSE IF demand_ = ON
  THEN [move |-> TRUE, pw_inc |-> pw_on_inc(id), final_ns |-> on_ns9a(id),
        coords |-> on_coords(id)]
  ELSE [move |-> FALSE]

\* faulty variant: set_on_off taking every demand that is not OFF as ON
SetOnOffPlanElseOn(id, demand_, state) ==
  IF demand_ = state THEN [move |-> FALSE]
  ELSE IF demand_ = OFF
  THEN [move |-> TRUE, pw_inc |-> pw_off_inc(id), final_ns |-> off_ns9a(id),
        coords |-> off_coords(id)]
  ELSE [move |-> TRUE, pw_inc |-> pw_on_inc(id), final_ns |-> on_ns9a(id),
        coords |-> on_coords(id)]

\* set_on_off, lines 133-144: the parameters of the move, or no move
SetOnOffPlan(id, demand_, state) ==
  IF demand_ = state THEN [move |-> FALSE]
  ELSE IF demand_ = OFF
  THEN [move |-> TRUE, pw_inc |-> pw_off_inc(id), final_ns |-> off_ns9a(id),
        coords |-> off_coords(id)]
  ELSE IF demand_ = ON
  THEN [move |-> TRUE, pw_inc |-> pw_on_inc(id), final_ns |-> on_ns9a(id),
        coords |-> on_coords(id)]
  ELSE [move |-> FALSE]

\* set_on_off, lines 148-152, once the stepper has returned
SetOnOffEnd(m) ==
  [m EXCEPT !.pc = "returned", !.duty = 0, !.nw = @ + 1, !.result = m.demand_]

\* a set_on_off(demand_) coroutine runs from its start to its first sleep,
\* or to its return
SetOnOffFrom(m, id, state, pw_ns) ==
  LET plan == SetOnOffPlan(id, m.demand_, state)
  IN IF ~plan.move THEN [m EXCEPT !.pc = "returned", !.result = None]
     ELSE LET m0 == duty_ns([m EXCEPT !.pw_inc = plan.pw_inc,
                                      !.final_ns = plan.final_ns,
                                      !.coords = plan.coords, !.start_pw = pw_ns,
                                      !.x_0 = 0, !.y_0 = 0], pw_ns)
              m1 == StepperRun(StepperSegment(m0, 1), id)
          IN IF m1.pc = "stepped" THEN SetOnOffEnd(m1) ELSE m1

\* the pins of the group: the keys of ServoGroup.servos
Group9a == DOMAIN servo

AllReturned(m) == \A id \in Group9a : m[id].pc \in {"none", "returned"}

\* commit the step of servo id's set_on_off task
Commit9a(id, m1) ==
  /\ mv' = [mv EXCEPT ![id] = m1]
  /\ pwm' = [pwm EXCEPT ![id] = m1.duty]
  /\ writes' = [writes EXCEPT ![id] = m1.nw]
  /\ servo' = IF m1.pc = "returned" /\ m1.result # None
              THEN [servo EXCEPT ![id] = [state |-> m1.demand_, pw_ns |-> m1.final_ns]]
              ELSE servo
  /\ task' = [task EXCEPT ![Consumer] =
                IF @ = "gather" /\ m1.pc = "returned"
                   /\ AllReturned([mv EXCEPT ![id] = m1])
                THEN "gather_go" ELSE @]
  /\ UNCHANGED <<btn, lp, sw, kind, q, sent, putLog, gotLog, raised, demand, md, elapsed,
                 startState>>

\* the task of a set_on_off coroutine is run for the first time
SetOnOffStart(id) ==
  /\ mv[id].pc = "called"
  /\ Commit9a(id, SetOnOffFrom(mv[id], id, servo[id].state, servo[id].pw_ns))

\* a set_on_off task wakes from the sleep of a stepper step
SetOnOffStep(id) ==
  /\ mv[id].pc = "step" /\ mv[id].rem = 0
  /\ LET m1 == StepperRun(mv[id], id)
     IN Commit9a(id, IF m1.pc = "stepped" THEN SetOnOffEnd(m1) ELSE m1)

\* the demands passed to set_on_off: OFF, ON, and a value that is neither
Demands9a == {OFF, ON, 2}

CallerReady == task[Consumer] = "run" \/ (task[Consumer] = "sleep" /\ md.rem = 0)

\* a task gathers one set_on_off(demand) coroutine per servo of a batch
\* (the call match_demand makes in script_0_9.py, line 196)
GatherSetOnOff ==
  /\ CallerReady
  /\ \E b \in [Group9a -> Demands9a] :
       /\ demand' = b
       /\ mv' = [id \in Group9a |->
                   [NoTask9a EXCEPT !.pc = "called", !.demand_ = b[id]]]
  /\ task' = [task EXCEPT ![Consumer] = "gather"]
  /\ md' = [rem |-> 0, result |-> <<>>]
  /\ elapsed' = 0
  /\ writes' = [id \in Group9a |-> 0]
  /\ startState' = [id \in Group9a |-> servo[id].state]
  /\ UNCHANGED <<btn, lp, sw, kind, q, sent, putLog, gotLog, raised, servo, pwm>>

\* the gathering task resumes with the results, then sleeps (main, line 264)
GatherReturn ==
  /\ task[Consumer] = "gather_go"
  /\ task' = [task EXCEPT ![Consumer] = "sleep"]
  /\ md' = [rem |-> BatchPause, result |-> [id \in Group9a |-> mv[id].result]]
  /\ UNCHANGED <<btn, lp, sw, kind, q, sent, putLog, gotLog, raised, servo, pwm, writes, mv,
                 demand, elapsed, startState>>

\* what match_demand, line 187, stores in tasks[i]: the value returned by
\* move_servo(demand[srv_id]), which is None
MatchDemand9aTask(id, d) == None

\* ServoGroup.match_demand of script_0_9a, lines 183-190: every entry of the
\* batch is passed to move_servo (no write: 0 and 1 are out of range), the
\* list of None is gathered, and gather raises TypeError
MatchDemand9a ==
  /\ CallerReady
  /\ \E b \in [Group9a -> {OFF, ON}] :
       /\ demand' = b
       /\ LET m == [id \in Group9a |-> move_servo(NoTask9a, b[id])]
              tasks == [id \in Group9a |-> MatchDemand9aTask(id, b[id])]
          IN /\ pwm' = [id \in Group9a |-> IF m[id].nw > 0 THEN m[id].duty ELSE pwm[id]]
             /\ writes' = [id \in Group9a |-> m[id].nw]
             /\ mv' = [id \in Group9a |->
                         IF tasks[id] = None THEN NoTask9a
                         ELSE [NoTask9a EXCEPT !.pc = "called", !.demand_ = b[id]]]
             /\ task' = [task EXCEPT ![Consumer] =
                           IF \E id \in Group9a : tasks[id] = None
                           THEN "raised" ELSE "gather"]
  /\ md' = [rem |-> 0, result |-> <<>>]
  /\ elapsed' = 0
  /\ startState' = [id \in Group9a |-> servo[id].state]
  /\ UNCHANGED <<btn, lp, sw, kind, q, sent, putLog, gotLog, raised, servo>>

Sleepers9a ==
  {mv[id].rem : id \in {i \in Group9a : mv[i].pc = "step"}}
    \cup (IF task[Consumer] = "sleep" THEN {md.rem} ELSE {})

\* no task is ready to run: time passes until the first timer is due
Tick9a ==
  /\ task[Consumer] \in {"gather", "sleep"}
  /\ \A id \in Group9a : mv[id].pc # "called"
  /\ Sleepers9a # {} /\ 0 \notin Sleepers9a
  /\ LET dt == MinOf(Sleepers9a)
     IN /\ mv' = [id \in Group9a |->
                    IF mv[id].pc = "step"
                    THEN [mv[id] EXCEPT !.rem = @ - dt] ELSE mv[id]]
        /\ md' = IF task[Consumer] = "sleep" THEN [md EXCEPT !.rem = @ - dt] ELSE md
        /\ elapsed' = IF task[Consumer] = "gather" THEN elapsed + dt ELSE elapsed
  /\ UNCHANGED <<btn, lp, sw, chvars, servo, pwm, writes, demand, startState>>

\* ServoGroup.__init__ and ServoGroup.initialise of script_0_9a
Init9a ==
  /\ IdleChannelBut /\ IdleSwitches /\ IdleLoops /\ IdleButtons
  /\ task = [t \in {Consumer} |-> "run"]
  /\ \E v \in [Servos -> {OFF, ON}] :
       /\ servo = Initialised9a(v)
       /\ startState = v
  /\ pwm = [id \in Servos |-> 0]
  /\ writes = [id \in Servos |-> 0]
  /\ mv = [id \in Servos |-> NoTask9a]
  /\ demand = <<>>
  /\ md = [rem |-> 0, result |-> <<>>]
  /\ elapsed = 0

Next9a ==
  \/ GatherSetOnOff
  \/ GatherReturn
  \/ \E id \in Group9a : SetOnOffStart(id)
  \/ \E id \in Group9a : SetOnOffStep(id)
  \/ MatchDemand9a
  \/ Tick9a

Spec9a == Init9a /\ [][Next9a]_vars

\* A ServoSG9x of script_0_9a constructed on its own with the arguments its
\* pin stands for, then set_on() or set_off() as initialise does; it is
\* driven by the same tasks as the group of main().
InitLone ==
  /\ IdleChannelBut /\ IdleSwitches /\ IdleLoops /\ IdleButtons
  /\ task = [t \in {Consumer} |-> "run"]
  /\ \E id \in LonePins, st \in {OFF, ON} :
       /\ servo = [i \in {id} |->
                     [state |-> st,
                      pw_ns |-> IF st = ON THEN on_ns9a(id) ELSE off_ns9a(id)]]
       /\ startState = [i \in {id} |-> st]
       /\ pwm = [i \in {id} |-> 0]
       /\ writes = [i \in {id} |-> 0]
       /\ mv = [i \in {id} |-> NoTask9a]
  /\ demand = <<>>
  /\ md = [rem |-> 0, result |-> <<>>]
  /\ elapsed = 0

SpecLone == InitLone /\ [][Next9a]_vars

\* the servo part is idle in the specifications that do not use it
IdleServos ==
  /\ servo = <<>> /\ pwm = <<>> /\ writes = <<>> /\ mv = <<>>
  /\ demand = <<>> /\ md = <<>> /\ elapsed = 0 /\ startState = <<>>

InitCh == InitChannel /\ IdleServos /\ IdleSwitches /\ IdleLoops /\ IdleButtons

InitTwo == InitTwoConsumers /\ IdleServos /\ IdleSwitches /\ IdleLoops /\ IdleButtons
SpecTwoConsumers == InitTwo /\ [][NextTwoConsumers]_vars

SpecChannel == InitCh /\ [][NextChannel]_vars

\* The scheduler runs a task whenever one can run: a task it has scheduled,
\* a producer that has values left to put, the consumer while values are
\* left to receive. Every task makes a bounded number of calls, so that no
\* task can be passed over for ever.
FairChannel == WF_vars(NextChannel)

SpecChannelFair == InitCh /\ [][NextChannel]_vars /\ FairChannel

\* ============================================ script_0_8a: the switches
n_readings == 3
n_pauses == n_readings - 1
db_pause == 20 \div n_pauses
PollPause == 1000     \* await asyncio.sleep_ms(1000) at the end of a poll

\* main(): switch_pins, from pin 16 up
SwitchPins == 16 .. 16 + NSwitches - 1

\* main(): switch_servos, switch pin -> the servo pins bound to it
switch_servos(pin) ==
  CASE pin = 16 -> <<0, 1>>
    [] pin = 17 -> <<2>>
    [] OTHER    -> <<pin - 15>>

\* a switch map in which servo 1 is bound to two switches, 16 and 17
switch_servos_shared(pin) ==
  CASE pin = 16 -> <<0, 1>>
    [] pin = 17 -> <<1, 2>>
    [] OTHER    -> <<pin - 15>>

\* the switch maps get_servo_demand is given
SwitchMaps ==
  {[pin \in SwitchPins |-> switch_servos(pin)],
   [pin \in SwitchPins |-> switch_servos_shared(pin)]}

\* faulty variant: a key that is already in the dict keeps its value
DictSetDefault(d, k, v) ==
  [x \in DOMAIN d \cup {k} |-> IF x \in DOMAIN d THEN d[x] ELSE v]

\* a dict with d[k] = v set
DictSet(d, k, v) == [x \in DOMAIN d \cup {k} |-> IF x = k THEN v ELSE d[x]]

\* the orders in which the keys of a dict may be iterated
KeyOrders(S) ==
  {o \in [1 .. Cardinality(S) -> S] : \A i, j \in 1 .. Cardinality(S) : o[i] = o[j] => i = j}

\* faulty variant: only the first servo bound to a switch is given its state
BindFirstServo(servo_demand, servo_pins, demand_) ==
  IF servo_pins = <<>> THEN servo_demand
  ELSE DictSet(servo_demand, Head(servo_pins), demand_)

RECURSIVE BindServos(_, _, _)
\* get_servo_demand, lines 91-92: the inner loop over the servos of a switch
BindServos(servo_demand, servo_pins, demand_) ==
  IF servo_pins = <<>> THEN servo_demand
  ELSE BindServos(DictSet(servo_demand, Head(servo_pins), demand_),
                  Tail(servo_pins), demand_)

RECURSIVE RouteFrom(_, _, _, _)
\* get_servo_demand, lines 89-92: the outer loop, over the keys of
\* sw_states_ still to come in the order of iteration
RouteFrom(servo_demand, order, sw_states_, switch_servos_) ==
  IF order = <<>> THEN servo_demand
  ELSE RouteFrom(BindServos(servo_demand, switch_servos_[Head(order)],
                            sw_states_[Head(order)]),
                 Tail(order), sw_states_, switch_servos_)

\* get_servo_demand(sw_states_, switch_servos_) with its keys iterated in
\* the given order: the dict returned, and the two arguments as the call
\* leaves them
get_servo_demand(order, sw_states_, switch_servos_) ==
  [servo_demand |-> RouteFrom(<<>>, order, sw_states_, switch_servos_),
   sw_states_ |-> sw_states_,
   switch_servos_ |-> switch_servos_]

\* faulty variant: the last reading is taken but not stored
get_state_db_last_not_stored(s, pin, value) ==
  IF s.i[pin] < n_pauses
  THEN [s EXCEPT !.readings[pin][s.i[pin] + 1] = value,
                 !.raw[pin] = Append(@, value),
                 !.i[pin] = @ + 1,
                 !.pc[pin] = "sleep", !.rem[pin] = db_pause,
                 !.sleeps[pin] = @ + 1]
  ELSE [s EXCEPT !.raw[pin] = Append(@, value),
                 !.pc[pin] = "done",
                 !.result[pin] =
                    IF \E k \in 1 .. n_readings : s.readings[pin][k] # 0
                    THEN 0 ELSE 1]

\* HwSwitch.get_state_db, lines 40-45, run from the start or from a sleep
\* with i passes of the loop made; value is what the pin reads
get_state_db(s, pin, value) ==
  IF s.i[pin] < n_pauses
  THEN [s EXCEPT !.readings[pin][s.i[pin] + 1] = value,
                 !.raw[pin] = Append(@, value),
                 !.i[pin] = @ + 1,
                 !.pc[pin] = "sleep", !.rem[pin] = db_pause,
                 !.sleeps[pin] = @ + 1]
  ELSE LET readings == [s.readings[pin] EXCEPT ![n_pauses + 1] = value]
       IN [s EXCEPT !.readings[pin] = readings,
                    !.raw[pin] = Append(@, value),
                    !.pc[pin] = "done",
                    !.result[pin] =
                       IF \E k \in 1 .. n_readings : readings[k] # 0 THEN 0 ELSE 1]

\* asyncio.gather(*self.tasks): the waiting task is resumed when the last
\* of the tasks returns
SwitchReturned(s) ==
  IF s.main = "gather" /\ \A pin \in s.pins : s.pc[pin] = "done"
  THEN [s EXCEPT !.main = "gather_go"] ELSE s

\* HwSwitchGroup.get_states_db, lines 66-69: one get_state_db task per switch
GetStatesDb ==
  /\ sw.main = "run" \/ (sw.main = "sleep" /\ sw.main_rem = 0)
  /\ sw' = [sw EXCEPT !.main = "gather",
                       !.pc = [pin \in sw.pins |-> "created"],
                       !.i = [pin \in sw.pins |-> 0],
                       !.raw = [pin \in sw.pins |-> <<>>],
                       !.sleeps = [pin \in sw.pins |-> 0],
                       !.result = [pin \in sw.pins |-> None]]
  /\ UNCHANGED <<btn, lp, chvars, svvars>>

\* the get_state_db task of a switch is run for the first time
GetStateDbStart(pin) ==
  /\ sw.pc[pin] = "created"
  /\ \E value \in {0, 1} : sw' = SwitchReturned(get_state_db(sw, pin, value))
  /\ UNCHANGED <<btn, lp, chvars, svvars>>

\* the get_state_db task of a switch wakes from its sleep
GetStateDbStep(pin) ==
  /\ sw.pc[pin] = "sleep" /\ sw.rem[pin] = 0
  /\ \E value \in {0, 1} : sw' = SwitchReturned(get_state_db(sw, pin, value))
  /\ UNCHANGED <<btn, lp, chvars, svvars>>

\* get_states_db resumes with the results (lines 70-72) and main, lines
\* 123-127, routes the states it returns and sleeps
Poll ==
  /\ sw.main = "gather_go"
  /\ \E order \in KeyOrders(sw.pins) :
       LET states == [pin \in sw.pins |-> sw.result[pin]]
           call == get_servo_demand(order, states, sw.switch_servos)
       IN sw' = [sw EXCEPT !.states = call.sw_states_,
                           !.switch_servos = call.switch_servos_,
                           !.servo_demand = call.servo_demand,
                           !.order = order,
                           !.main = "sleep", !.main_rem = PollPause]
  /\ UNCHANGED <<btn, lp, chvars, svvars>>

SwitchSleepers ==
  {sw.rem[pin] : pin \in {p \in sw.pins : sw.pc[p] = "sleep"}}
    \cup (IF sw.main = "sleep" THEN {sw.main_rem} ELSE {})

\* no task is ready to run: time passes until the first timer is due
TickSwitch ==
  /\ sw.main \in {"gather", "sleep"}
  /\ \A pin \in sw.pins : sw.pc[pin] # "created"
  /\ SwitchSleepers # {} /\ 0 \notin SwitchSleepers
  /\ LET dt == MinOf(SwitchSleepers)
     IN sw' = [sw EXCEPT !.rem = [pin \in sw.pins |->
                                    IF sw.pc[pin] = "sleep" THEN @[pin] - dt ELSE @[pin]],
                         !.main_rem = IF sw.main = "sleep" THEN @ - dt ELSE @]
  /\ UNCHANGED <<btn, lp, chvars, svvars>>

\* HwSwitchGroup(switch_pins_) for some of the switch pins, each HwSwitch
\* as __init__ leaves it, and the polling task of main() not yet run
InitSwitch ==
  /\ IdleChannelBut /\ task = <<>> /\ IdleServos /\ IdleLoops /\ IdleButtons
  /\ \E pins \in (SUBSET SwitchPins) \ {{}}, map \in SwitchMaps :
       sw = [pins |-> pins,
             readings |-> [pin \in pins |-> [k \in 1 .. n_readings |-> 1]],
             states |-> [pin \in pins |-> 0],
             pc |-> [pin \in pins |-> "none"],
             i |-> [pin \in pins |-> 0],
             rem |-> [pin \in pins |-> 0],
             raw |-> [pin \in pins |-> <<>>],
             sleeps |-> [pin \in pins |-> 0],
             result |-> [pin \in pins |-> None],
             main |-> "run", main_rem |-> 0,
             switch_servos |-> map,
             servo_demand |-> <<>>,
             order |-> <<>>]

NextSwitch ==
  \/ GetStatesDb
  \/ \E pin \in sw.pins : GetStateDbStart(pin)
  \/ \E pin \in sw.pins : GetStateDbStep(pin)
  \/ Poll
  \/ TickSwitch

SpecSwitch == InitSwitch /\ [][NextSwitch]_vars

\* ============================= the polling loops and the stepper, alone
\* The body of a loop is the sequence of the await points on the path one
\* iteration takes, each TRUE when the task is suspended there: sleep_ms()
\* always suspends, Event.wait() suspends when the event is clear,
\* Lock.acquire() when the lock is taken, and awaiting a coroutine that has
\* no await inside (Queue.add of script_0_10) never does.

\* Button.poll_input (script_0_10), lines 38-51; space1, space2: is_space is
\* set at the first and at the second wait
poll_input_awaits(state, prev_state, space1, space2) ==
  IF state # prev_state /\ state = 1
  THEN <<~space1, FALSE, ~space2, FALSE, TRUE>>
  ELSE <<TRUE>>

\* faulty variant: key_input that sleeps only after a key was put
key_input_awaits_sleep_on_put(node, new_press, locked, space) ==
  IF node # None /\ new_press THEN <<locked, ~space, TRUE>> ELSE <<>>

\* KeyPad.key_input (script_0_6a), lines 91-98; locked, space: the state of
\* put_lock and is_space met by KeyBuffer.put
key_input_awaits(node, new_press, locked, space) ==
  IF node # None /\ new_press THEN <<locked, ~space, TRUE>> ELSE <<TRUE>>

\* key_input, lines 92-97: new_press after the scan
key_input_new_press(node, new_press) ==
  IF node = None THEN TRUE
  ELSE IF new_press THEN FALSE
  ELSE new_press

\* set_servos (script_0_8), lines 131-135; g1, g2: get_states_db and
\* match_demand suspended the task
set_servos_awaits(g1, g2) == <<g1, g2, TRUE>>

\* stepper (script_0_9a), lines 122-125: move_servo is a plain call
stepper_awaits == <<TRUE>>

\* the profiles of the tables of script_0_9a, script_0_9b and script_0_9
ProfileNames == motion_set \ {"semaphore"}
BuiltInProfiles ==
  {motion_coords(motion) : motion \in ProfileNames}
    \cup {motion_coords9b(motion) : motion \in ProfileNames}
    \cup {motion_coords09(motion) : motion \in ProfileNames}

LoopProgs == {"poll_input", "key_input", "set_servos", "stepper"}

\* the keypad nodes scanned: no key, key '1' (0x00), key '5' (0x11)
Nodes == {None, 0, 17}

RECURSIVE LoopRun(_)
\* the task runs on to its next suspension, or to the end of the iteration
LoopRun(l) ==
  IF l.path = <<>>
  THEN [l EXCEPT !.pc = "head", !.iters = @ + 1, !.last = l.yields,
                 !.last_awaits = l.awaits, !.dry = @ \/ l.yields = 0,
                 !.yields = 0, !.awaits = 0]
  ELSE IF Head(l.path)
  THEN [l EXCEPT !.pc = "susp", !.path = Tail(@), !.yields = @ + 1,
                 !.awaits = @ + 1]
  ELSE LoopRun([l EXCEPT !.path = Tail(@), !.awaits = @ + 1])

\* the loops that never end are followed for MaxIters iterations
AtHead(prog) ==
  lp.prog = prog /\ lp.pc = "head" /\ lp.iters < MaxIters

LoopUnchanged == UNCHANGED <<chvars, svvars, sw, btn>>

\* one iteration of poll_input starts: the pin is read
PollInputIter ==
  /\ AtHead("poll_input")
  /\ \E state \in {0, 1}, space1, space2 \in BOOLEAN :
       lp' = LoopRun([lp EXCEPT
                !.path = poll_input_awaits(state, lp.prev_state, space1, space2),
                !.prev_state = state])
  /\ LoopUnchanged

\* one iteration of key_input starts: the matrix is scanned
KeyInputIter ==
  /\ AtHead("key_input")
  /\ \E node \in Nodes, locked, space \in BOOLEAN :
       lp' = LoopRun([lp EXCEPT
                !.path = key_input_awaits(node, lp.new_press, locked, space),
                !.new_press = key_input_new_press(node, lp.new_press)])
  /\ LoopUnchanged

\* one iteration of the loop of set_servos starts
SetServosIter ==
  /\ AtHead("set_servos")
  /\ \E g1, g2 \in BOOLEAN :
       lp' = LoopRun([lp EXCEPT !.path = set_servos_awaits(g1, g2)])
  /\ LoopUnchanged

\* stepper, lines 116-120: segment k is entered; its divisor x1 - x_0 is
\* noted, and a divisor 0 raises ZeroDivisionError
StepperSetup(l, k) ==
  LET d == l.coords[k][1] - l.x_0
  IN IF d = 0 THEN [l EXCEPT !.pc = "raised", !.divs = Append(@, d)]
     ELSE [l EXCEPT !.k = k, !.x = l.x_0, !.divs = Append(@, d)]

RECURSIVE StepperLoop(_)
\* stepper, lines 113-127, from its start (k = 0) or from the test of the
\* while loop
StepperLoop(l) ==
  IF l.pc = "raised" THEN l
  ELSE IF l.k = 0 THEN StepperLoop(StepperSetup(l, 1))
  ELSE IF l.x < l.coords[l.k][1]
  THEN LoopRun([l EXCEPT !.x = @ + 1, !.path = stepper_awaits])
  ELSE LET l1 == [l EXCEPT !.x_0 = l.coords[l.k][1]]
       IN IF l.k = Len(l.coords) THEN [l1 EXCEPT !.pc = "done"]
          ELSE StepperLoop(StepperSetup(l1, l.k + 1))

\* the test of the while loop of the stepper, and what follows it
StepperIter ==
  /\ lp # <<>> /\ lp.prog = "stepper" /\ lp.pc = "head"
  /\ lp' = StepperLoop(lp)
  /\ LoopUnchanged

\* the scheduler resumes the suspended task
LoopResume ==
  /\ lp # <<>> /\ lp.pc = "susp"
  /\ lp' = LoopRun(lp)
  /\ LoopUnchanged

NewLoop(prog, coords) ==
  [prog |-> prog, pc |-> "head", path |-> <<>>, yields |-> 0, last |-> 0,
   awaits |-> 0, last_awaits |-> 0, dry |-> FALSE, iters |-> 0, prev_state |-> 1, new_press |-> TRUE,
   coords |-> coords, k |-> 0, x |-> 0, x_0 |-> 0, divs |-> <<>>]

\* the task has been created and has not run yet
InitLoops ==
  /\ IdleChannelBut /\ task = <<>> /\ IdleServos /\ IdleSwitches /\ IdleButtons
  /\ lp \in {NewLoop(prog, <<>>) : prog \in LoopProgs \ {"stepper"}} \cup
            {NewLoop("stepper", coords) : coords \in BuiltInProfiles}

NextLoops ==
  \/ PollInputIter
  \/ KeyInputIter
  \/ SetServosIter
  \/ StepperIter
  \/ LoopResume

SpecLoops == InitLoops /\ [][NextLoops]_vars

\* ============================== led_pwm.py: KeyBuffer with add() and pop()
\* The buffer has an item and is_data only. The key value added is written
\* ItemOf(p, i), the i-th key pressed on keypad p, to tell the values apart.

\* faulty variant: add() that keeps an item not yet popped
KeyBuffer_add_keep_first(s, item) ==
  IF s.q.is_data.state THEN s
  ELSE Event_set([s EXCEPT !.q.item = item], "is_data")

\* KeyBuffer.add, lines 68-71
KeyBuffer_add(s, item) == Event_set([s EXCEPT !.q.item = item], "is_data")

\* KeyBuffer.pop, lines 73-76 (the value returned is s.q.item)
KeyBuffer_pop(s) == Event_clear(s, "is_data")

\* KeyPad.key_input: one iteration, from the scan to sleep_ms(100); new_press
\* is False in position "sleep_held" and True otherwise
KeyPad_key_input(p) ==
  /\ task[p] \in {"run", "sleep", "sleep_held"} /\ sent[p] < MaxPuts
  /\ \E node \in Nodes :
       LET new_press == task[p] # "sleep_held"
           add == node # None /\ new_press
           s1 == IF add THEN KeyBuffer_add(Cur, ItemOf(p, sent[p])) ELSE Cur
           s2 == [s1 EXCEPT !.task[p] =
                    IF node = None THEN "sleep" ELSE "sleep_held"]
       IN /\ q' = s2.q /\ task' = s2.task
          /\ IF add
             THEN /\ sent' = [sent EXCEPT ![p] = @ + 1]
                  /\ putLog' = Append(putLog, ItemOf(p, sent[p]))
             ELSE UNCHANGED <<sent, putLog>>
  /\ UNCHANGED <<btn, lp, sw, kind, gotLog, raised, svvars>>

\* print_buffer: from its start or from its resumption after is_data.wait()
\* to the next suspension in is_data.wait()
print_buffer ==
  /\ task[Consumer] \in {"run", "data_go"}
  /\ LET s0 == [Cur EXCEPT !.task[Consumer] = "run"]
         pops == task[Consumer] = "data_go" \/ q.is_data.state
         s1 == IF pops THEN KeyBuffer_pop(s0) ELSE s0
         s2 == Event_suspend(s1, "is_data", Consumer, "data_wait")
     IN /\ q' = s2.q /\ task' = s2.task
        /\ gotLog' = IF pops THEN Append(gotLog, s0.q.item) ELSE gotLog
  /\ UNCHANGED <<btn, lp, sw, kind, sent, putLog, raised, svvars>>

\* main(): KeyBuffer.__init__, the keypad tasks and print_buffer created
InitKeyPad ==
  /\ kind = "led_pwm"
  /\ q = [item |-> None, is_data |-> NewEvent(FALSE)]
  /\ task = [t \in Tasks |-> "run"]
  /\ sent = [p \in Producers |-> 0]
  /\ putLog = <<>> /\ gotLog = <<>> /\ raised = FALSE
  /\ IdleServos /\ IdleSwitches /\ IdleLoops /\ IdleButtons

NextKeyPad ==
  \/ \E p \in Producers : KeyPad_key_input(p)
  \/ print_buffer

SpecKeyPad == InitKeyPad /\ [][NextKeyPad]_vars


\* ===================== script_0_10.py / script_0_10b.py: buttons and Queue
\* kind is the script. Button p (task p) is the p-th Button constructed. A
\* queue slot is written [v |-> value, src |-> origin]: v is the array
\* element, src = <<p, k, part>> records that it was added by button p for
\* its k-th release as part "id", "event" or "byte" (history, read by no
\* code). btn[p].since_on is ticks_diff(ticks_ms(), on_time), kept up to
\* hold_t; btn[p].hold_t and btn[p].event are the locals hold_t and event;
\* btn[p].at is the is_space.wait() the task is suspended in.
hold_t == 750
TickSteps == {250, 499}     \* ms that can pass between two polls
NoSlot == [v |-> 0, src |-> <<>>]

\* faulty variant: the id is shifted by one bit only
encode_id_data_shift_one(id_, data) == id_ * 2 + data

\* encode_id_data, script_0_10b lines 14-18: (id_ << 2) + data
encode_id_data(id_, data) == id_ * 4 + data

\* decode_id_data, script_0_10b lines 21-23: info_byte >> 2, info_byte & 0b11
decode_id_data(info_byte) == <<info_byte \div 4, info_byte % 4>>

\* Button.__init__ called k times: self.id = Button._id; Button._id += 1
RECURSIVE ButtonsMade(_)
ButtonsMade(k) ==
  IF k = 0 THEN [_id |-> 0, ids |-> <<>>]
  ELSE LET made == ButtonsMade(k - 1)
       IN [_id |-> made._id + 1, ids |-> Append(made.ids, made._id)]

\* Queue.add, script_0_10 lines 72-80
Queue_add(s, item) ==
  LET next_ == (s.q.next + 1) % s.q.max_len
      s1 == [s EXCEPT !.q.queue[s.q.next] = item]
      s2 == IF next_ = s1.q.head THEN Event_clear(s1, "is_space") ELSE s1
  IN Event_set([s2 EXCEPT !.q.next = next_], "is_data")

\* Queue.pop, script_0_10 lines 82-91 (the item returned is queue[head])
Queue_pop(s) ==
  LET head_ == (s.q.head + 1) % s.q.max_len
      s1 == IF head_ = s.q.next THEN Event_clear(s, "is_data") ELSE s
  IN Event_set([s1 EXCEPT !.q.head = head_], "is_space")

\* faulty variant: a hold needs more than hold_t
ButtonEventLate(held) == IF held <= hold_t THEN 1 ELSE 2

\* poll_input: event = 1 if hold_t < Button.hold_t else 2
ButtonEvent(held) == IF held < hold_t THEN 1 ELSE 2

\* poll_input once is_space.wait() number `at` has returned, to the next
\* suspension: the add() calls, prev_state = state, sleep_ms(20)
ButtonAdds(s, p, b, at) ==
  LET k == sent[p]
      done(s1, adds) ==
        [s |-> [s1 EXCEPT !.task[p] = "sleep"],
         b |-> [b EXCEPT !.prev_state = 1, !.at = 0], adds |-> adds]
      ev == [v |-> b.event, src |-> <<p, k, "event">>]
      idv == [v |-> b.id, src |-> <<p, k, "id">>]
      byte == [v |-> encode_id_data(b.id, b.event), src |-> <<p, k, "byte">>]
  IN IF kind = "script_0_10b" THEN done(Queue_add(s, byte), <<byte>>)
     ELSE IF at = 2 THEN done(Queue_add(s, ev), <<ev>>)
     ELSE LET s1 == Queue_add(s, idv)
          IN IF s1.q.is_space.state
             THEN done(Queue_add(s1, ev), <<idv, ev>>)
             ELSE [s |-> Event_suspend(s1, "is_space", p, "space_wait"),
                   b |-> [b EXCEPT !.at = 2], adds |-> <<idv>>]

\* the step of button p ends in r: sent[p] counts the releases handled
CommitButton(r, p) ==
  /\ q' = r.s.q /\ task' = r.s.task /\ raised' = r.s.raised
  /\ btn' = [btn EXCEPT ![p] = r.b]
  /\ putLog' = putLog \o r.adds
  /\ sent' = IF r.s.task[p] = "sleep" /\ r.adds # <<>>
             THEN [sent EXCEPT ![p] = @ + 1] ELSE sent
  /\ UNCHANGED <<lp, sw, kind, gotLog, svvars>>

\* Button.poll_input: one iteration from reading the pin
PollInput(p) ==
  /\ task[p] \in {"run", "sleep"}
  /\ \E state \in {0, 1}, dt \in TickSteps :
       LET b == btn[p]
           since == IF b.prev_state = 0
                    THEN IF b.since_on + dt < hold_t THEN b.since_on + dt
                         ELSE hold_t
                    ELSE 0
           s == [Cur EXCEPT !.task[p] = "sleep"]
       IN IF state = b.prev_state
          THEN CommitButton([s |-> s, b |-> [b EXCEPT !.since_on = since],
                             adds |-> <<>>], p)
          ELSE IF state = 0
          THEN /\ sent[p] < MaxPuts
               /\ CommitButton([s |-> s,
                                b |-> [b EXCEPT !.prev_state = 0, !.since_on = 0],
                                adds |-> <<>>], p)
          ELSE LET b1 == [b EXCEPT !.hold_t = since,
                                   !.event = ButtonEvent(since),
                                   !.since_on = 0, !.at = 1]
               IN IF q.is_space.state
                  THEN CommitButton(ButtonAdds(Cur, p, b1, 1), p)
                  ELSE CommitButton(
                         [s |-> Event_suspend(Cur, "is_space", p, "space_wait"),
                          b |-> b1, adds |-> <<>>], p)

\* Button.poll_input resumed after is_space.wait()
PollInputAfterSpace(p) ==
  /\ task[p] = "space_go"
  /\ CommitButton(ButtonAdds([Cur EXCEPT !.task[p] = "run"], p, btn[p],
                             btn[p].at), p)

\* button_event from is_data.wait(), which has returned if `resumed`, to
\* its next suspension or its end; c is [stage, btn_id], log the pairs read
RECURSIVE button_event(_, _, _, _)
button_event(s, c, log, resumed) ==
  IF ~resumed /\ ~s.q.is_data.state
  THEN [s |-> Event_suspend(s, "is_data", Consumer, "data_wait"),
        c |-> c, log |-> log]
  ELSE LET item == s.q.queue[s.q.head]
           s1 == Queue_pop(s)
       IN IF kind = "script_0_10" /\ c.stage = 1
          THEN button_event(s1, [stage |-> 2, btn_id |-> item], log, FALSE)
          ELSE LET pair == IF kind = "script_0_10" THEN <<c.btn_id, item>>
                           ELSE <<item, item>>
                   read == IF kind = "script_0_10" THEN <<c.btn_id.v, item.v>>
                           ELSE decode_id_data(item.v)
                   c1 == [stage |-> 1, btn_id |-> NoSlot]
               IN IF read = <<2, 2>>
                  THEN [s |-> [s1 EXCEPT !.task[Consumer] = "done"],
                        c |-> c1, log |-> Append(log, pair)]
                  ELSE button_event(s1, c1, Append(log, pair), FALSE)

\* the task of main() in button_event
ButtonEventRun ==
  /\ task[Consumer] \in {"run", "data_go"}
  /\ LET r == button_event([Cur EXCEPT !.task[Consumer] = "run"],
                           btn[Consumer], gotLog, task[Consumer] = "data_go")
     IN /\ q' = r.s.q /\ task' = r.s.task /\ raised' = r.s.raised
        /\ btn' = [btn EXCEPT ![Consumer] = r.c]
        /\ gotLog' = r.log
  /\ UNCHANGED <<lp, sw, kind, sent, putLog, svvars>>

\* main(): the Queue, the buttons, their tasks created
InitButtons ==
  /\ kind \in {"script_0_10", "script_0_10b"}
  /\ \E max_len \in 1 .. MaxLen :
       q = [max_len |-> max_len, queue |-> [i \in 0 .. max_len - 1 |-> NoSlot],
            head |-> 0, next |-> 0,
            is_data |-> NewEvent(FALSE), is_space |-> NewEvent(TRUE)]
  /\ task = [t \in Tasks |-> "run"]
  /\ btn = [t \in Tasks |->
              IF t = Consumer THEN [stage |-> 1, btn_id |-> NoSlot]
              ELSE [id |-> ButtonsMade(NProducers).ids[t], prev_state |-> 1,
                    since_on |-> 0, hold_t |-> 0, event |-> 0, at |-> 0]]
  /\ sent = [p \in Producers |-> 0]
  /\ putLog = <<>> /\ gotLog = <<>> /\ raised = FALSE
  /\ IdleServos /\ IdleSwitches /\ IdleLoops

NextButtons ==
  \/ \E p \in Producers : PollInput(p)
  \/ \E p \in Producers : PollInputAfterSpace(p)
  \/ ButtonEventRun

SpecButtons == InitButtons /\ [][NextButtons]_vars


\* Queue.q_len, script_0_10 lines 93-103
Queue_q_len_0_10(obj) ==
  IF obj.head = obj.next
  THEN IF obj.is_data.state THEN obj.max_len ELSE 0
  ELSE (obj.next - obj.head) % obj.max_len


\* ============= the preallocated task lists (script_0_9a, 0_9b, script_0_8a)
\* an entry of a task list: v is the value stored (None, or the pin of the
\* switch whose get_state_db() coroutine it is), src the call that stored it
\* and the actuator it was stored for (<<>>: stored by __init__)
NoEntry == [v |-> None, src |-> <<>>]

\* self.tasks = [None] * len(self.servos), [None] * self.n_switches
NewTasks(n) == [i \in 1 .. n |-> NoEntry]

\* the demand dicts over the servos of the group, as the sequence of their
\* (srv_id, value) items in the order enumerate() meets them
DemandDicts ==
  {b \in UNION {[1 .. n -> Servos \X {OFF, ON}] : n \in 0 .. NServos} :
     \A i, j \in DOMAIN b : b[i][1] = b[j][1] => i = j}

\* self.pins, in the order of the tuple given to HwSwitchGroup
PinList == [i \in 1 .. NSwitches |-> 15 + i]

\* ServoGroup.match_demand of script_0_9a (183-190) and script_0_9b
\* (200-206), up to the call of gather: tasks[i] is assigned for the entries
\* of demand only, and gather is given the whole list; gather raises on an
\* argument that is None, and the list stays as it is for the next call
MatchDemandTasks ==
  /\ kind \in {"script_0_9a", "script_0_9b"}
  /\ md.call < MaxIters
  /\ \E b \in DemandDicts :
       LET tasks == [i \in DOMAIN md.tasks |->
                       IF i <= Len(b)
                       THEN [v |-> MatchDemand9aTask(b[i][1], b[i][2]),
                             src |-> <<md.call + 1, b[i][1]>>]
                       ELSE md.tasks[i]]
       IN /\ md' = [tasks |-> tasks, call |-> md.call + 1,
                    batch |-> [i \in DOMAIN b |-> b[i][1]],
                    gathered |-> tasks]
          /\ demand' = b
          /\ raised' = (raised \/ \E i \in DOMAIN tasks : tasks[i].v = None)
  /\ UNCHANGED <<kind, q, task, sent, putLog, gotLog>>
  /\ UNCHANGED <<servo, pwm, writes, mv, elapsed, startState, sw, lp, btn>>

\* HwSwitchGroup.get_states_db of script_0_8a (64-68), up to the call of
\* gather: tasks[i] is assigned for every pin of self.pins
GetStatesDbTasks ==
  /\ kind = "script_0_8a"
  /\ md.call < MaxIters
  /\ LET tasks == [i \in DOMAIN md.tasks |->
                     [v |-> PinList[i], src |-> <<md.call + 1, PinList[i]>>]]
     IN md' = [tasks |-> tasks, call |-> md.call + 1,
               batch |-> PinList, gathered |-> tasks]
  /\ UNCHANGED <<kind, q, task, sent, putLog, gotLog, raised, demand>>
  /\ UNCHANGED <<servo, pwm, writes, mv, elapsed, startState, sw, lp, btn>>

\* ServoGroup.__init__ (script_0_9a 161-164, script_0_9b 181-192) and
\* HwSwitchGroup.__init__ (script_0_8a 50-55): the list before any call
InitTasks ==
  /\ kind \in {"script_0_9a", "script_0_9b", "script_0_8a"}
  /\ md = [tasks |-> NewTasks(IF kind = "script_0_8a" THEN NSwitches ELSE NServos),
           call |-> 0, batch |-> <<>>, gathered |-> <<>>]
  /\ q = <<>> /\ task = <<>> /\ sent = <<>>
  /\ putLog = <<>> /\ gotLog = <<>> /\ raised = FALSE
  /\ servo = <<>> /\ pwm = <<>> /\ writes = <<>> /\ mv = <<>>
  /\ demand = <<>> /\ elapsed = 0 /\ startState = <<>>
  /\ IdleSwitches /\ IdleLoops /\ IdleButtons

NextTasks == MatchDemandTasks \/ GetStatesDbTasks

SpecTasks == InitTasks /\ [][NextTasks]_vars


\* ================== script_0_10b.py: encode_id_data and decode_id_data alone
ByteMax == 255                  \* largest element of an array of typecode 'B'
ByteIds == 0 .. ByteMax \div 4  \* the ids whose byte has room for two data bits
EventCodes == 0 .. 3            \* the values of the two data bits

\* Button.poll_input of script_0_10b, the encoding of the pair it queues
EncodeIdData ==
  /\ kind = "encode_id_data" /\ btn.stage = "new"
  /\ btn' = [btn EXCEPT !.stage = "encoded",
                        !.info_byte = encode_id_data(btn.id_, btn.data)]
  /\ UNCHANGED <<chvars, svvars, sw, lp>>

\* button_event of script_0_10b, lines 68-70: the byte read is decoded
DecodeIdData ==
  /\ kind = "encode_id_data" /\ btn.stage = "encoded"
  /\ btn' = [btn EXCEPT !.stage = "decoded",
                        !.decoded = decode_id_data(btn.info_byte)]
  /\ UNCHANGED <<chvars, svvars, sw, lp>>

\* any id and event that the byte range allows
InitEncode ==
  /\ kind = "encode_id_data"
  /\ \E id_ \in ByteIds, data \in EventCodes :
       btn = [stage |-> "new", id_ |-> id_, data |-> data,
              info_byte |-> None, decoded |-> <<>>]
  /\ q = <<>> /\ task = <<>> /\ sent = <<>>
  /\ putLog = <<>> /\ gotLog = <<>> /\ raised = FALSE
  /\ IdleServos /\ IdleSwitches /\ IdleLoops

NextEncode == EncodeIdData \/ DecodeIdData

SpecEncode == InitEncode /\ [][NextEncode]_vars


\* ================================================================= claims
\* number of unread items: completed puts - completed gets
Count == Len(putLog) - Len(gotLog)

ProducerOf(v) == v \div 10

AllItems == {ItemOf(p, i) : p \in Producers, i \in 0 .. MaxPuts - 1}

NoDuplicates(seq) == \A i, j \in 1 .. Len(seq) : i # j => seq[i] # seq[j]

\* every task is suspended and not scheduled, or has nothing left to do
Quiescent ==
  /\ \A p \in Producers :
       \/ task[p] \in {"lock_wait", "space_wait"}
       \/ task[p] = "run" /\ sent[p] = MaxPuts
  /\ \/ task[Consumer] = "data_wait"
     \/ task[Consumer] = "run" /\ Len(gotLog) = NProducers * MaxPuts

\* C1: the values returned by Queue.get() are a prefix of the values written
\* by put(), taken in the order in which the puts completed (FIFO).
C1_Fifo ==
  kind = "Queue" =>
    /\ Len(gotLog) <= Len(putLog)
    /\ \A i \in 1 .. Len(gotLog) : gotLog[i] = putLog[i]

\* C1 witness: a Queue of capacity 2 whose ring has wrapped, with the two
\* producers' puts interleaved and all of them received.
C1_Witness ==
  /\ kind = "Queue" /\ q.length = 2
  /\ Len(gotLog) = NProducers * MaxPuts
  /\ ProducerOf(gotLog[1]) = 2 /\ ProducerOf(gotLog[2]) = 1

\* C2: at every suspension point is_data is clear iff no item is unread and
\* is_space is clear iff the number of unread items equals the capacity.
C2_Flags ==
  kind = "Queue" =>
    /\ (~q.is_data.state) <=> (Count = 0)
    /\ (~q.is_space.state) <=> (Count = q.length)

\* C2 witness: a full Queue of capacity 2 (is_space clear, is_data set).
C2_Witness ==
  /\ kind = "Queue" /\ q.length = 2 /\ Count = 2
  /\ ~q.is_space.state /\ q.is_data.state /\ Len(gotLog) >= 1

\* C3: put() on a full Queue suspends: the unread items never exceed the
\* capacity, every unread item is still in its slot (none overwritten, none
\* dropped), a producer that met a full queue is suspended on is_space
\* holding put_lock, and no call has raised.
C3_Backpressure ==
  kind = "Queue" =>
    /\ Count >= 0 /\ Count <= q.length
    /\ \A i \in 1 .. Count :
         q.queue[(q.head + i - 1) % q.length] = putLog[Len(gotLog) + i]
    /\ \A p \in Producers :
         task[p] = "space_wait" => Count = q.length /\ q.put_lock.state = 1
    /\ ~raised

\* C3 witness: a producer suspended in put() on a full Queue while another
\* producer waits for the lock.
C3_Witness ==
  /\ kind = "Queue" /\ Count = q.length
  /\ \E p1, p2 \in Producers :
       task[p1] = "space_wait" /\ task[p2] = "lock_wait"

\* C4: get() on an empty Queue suspends until a put completes: a suspended
\* consumer is scheduled only when an item is unread, and every value
\* returned was written by a completed put and was not returned before
\* (never the initial None).
C4_NoUnderflow ==
  kind = "Queue" =>
    /\ task[Consumer] = "data_wait" => Count = 0
    /\ task[Consumer] = "data_go" => Count > 0
    /\ \A i \in 1 .. Len(gotLog) :
         /\ gotLog[i] # None
         /\ gotLog[i] \in RangeOf(putLog)
    /\ NoDuplicates(gotLog)

\* C4 witness: the consumer was suspended in get() on an empty Queue and
\* has been scheduled by a put, after an earlier get had emptied the queue.
C4_Witness ==
  /\ kind = "Queue" /\ task[Consumer] = "data_go"
  /\ Len(gotLog) >= 1 /\ Count = 1

\* C5: with several producers putting concurrently into a Queue or a
\* CharBuffer, no put fails, nothing is duplicated, nothing is lost (when no
\* task can run any more every value put has been received, and whatever
\* was received was put), and each producer's values arrive in the order it
\* put them.
C5_Producers ==
  /\ ~raised
  /\ NoDuplicates(gotLog)
  /\ RangeOf(gotLog) \subseteq RangeOf(putLog)
  /\ RangeOf(putLog) \subseteq AllItems
  /\ Quiescent => RangeOf(gotLog) = AllItems
  /\ \A i, j \in 1 .. Len(gotLog) :
       (i < j /\ ProducerOf(gotLog[i]) = ProducerOf(gotLog[j]))
         => gotLog[i] < gotLog[j]

\* C5 witness: a CharBuffer through which everything has been received, the
\* two producers' values interleaved.
C5_Witness ==
  /\ kind = "CharBuffer" /\ Quiescent
  /\ Len(gotLog) = NProducers * MaxPuts
  /\ ProducerOf(gotLog[1]) = 1 /\ ProducerOf(gotLog[2]) = 2
  /\ ProducerOf(gotLog[3]) = 1

\* the servos match_demand made a transition task for, in the batch in hand
Scheduled == {id \in Servos : mv[id].pc # "none"}

\* the time a transition of servo id takes: x_steps sleeps of step_ms
Duration(id) == x_steps * step_ms(id)

MaxOf(S) == CHOOSE x \in S : \A y \in S : y <= x

RECURSIVE SumDuration(_)
SumDuration(S) ==
  IF S = {} THEN 0
  ELSE LET id == CHOOSE i \in S : TRUE IN Duration(id) + SumDuration(S \ {id})

\* C6: match_demand (script_0_7) makes no transition for a servo whose state
\* already equals its demand: no task, no PWM write, no sleep, nothing
\* changed on its behalf; a batch of such servos alone is not waited for.
C6_NoRedundantTransition ==
  (kind = "DataBuffer" /\ demand # <<>>) =>
    /\ \A id \in Servos :
         demand[id] = startState[id] =>
           /\ mv[id] = NoTask
           /\ writes[id] = 0 /\ pwm[id] = 0
           /\ servo[id].state = startState[id]
    /\ (\A id \in Servos : demand[id] = startState[id]) =>
         task[Consumer] \notin {"gather", "gather_go"} /\ elapsed = 0

\* C6 witness: a batch in which one servo is already at its demand while
\* the transition of another is half-way.
C6_Witness ==
  /\ kind = "DataBuffer" /\ demand # <<>>
  /\ \E a, b \in Servos :
       /\ demand[a] = startState[a] /\ startState[a] = ON
       /\ mv[b].pc = "loop" /\ mv[b].n = 50

\* C7: match_demand (script_0_7) is past its gather only when every
\* transition task of the batch has finished, its last write being the zero
\* duty and the state and position of its servo being those demanded.
C7_Barrier ==
  (kind = "DataBuffer" /\ task[Consumer] # "gather") =>
    \A id \in Servos :
      /\ mv[id].pc \in {"none", "done"}
      /\ mv[id].pc = "done" =>
           /\ pwm[id] = 0
           /\ servo[id].state = demand[id]
           /\ servo[id].pw_ns = (IF demand[id] = ON THEN on_ns(id) ELSE off_ns(id))

\* C7 witness: match_demand has resumed from a gather of two transitions.
C7_Witness ==
  /\ kind = "DataBuffer" /\ task[Consumer] = "sleep"
  /\ Cardinality(Scheduled) >= 2
  /\ \A id \in Scheduled : mv[id].pc = "done"
  /\ DOMAIN md.result = Scheduled

\* C8: the transitions of a batch run concurrently: each starts before any
\* time has passed, and when the gather is over the time it took is the
\* longest of the durations of the transitions, less than their sum when
\* there are two or more.
C8_Concurrent ==
  kind = "DataBuffer" =>
    /\ \A id \in Servos : mv[id].pc = "created" => elapsed = 0
    /\ (task[Consumer] # "gather" /\ Scheduled # {}) =>
         /\ elapsed = MaxOf({Duration(id) : id \in Scheduled})
         /\ elapsed <= MaxOf({transition_ms(id) : id \in Scheduled})
         /\ Cardinality(Scheduled) >= 2 => elapsed < SumDuration(Scheduled)

\* C8 witness: two transitions have each started and neither has finished.
C8_Witness ==
  /\ kind = "DataBuffer"
  /\ \E a, b \in Servos :
       /\ a # b /\ transition_ms(a) # transition_ms(b)
       /\ mv[a].pc = "loop" /\ mv[a].n >= 10
       /\ mv[b].pc = "loop" /\ mv[b].n >= 10

\* C9: when a call of match_demand is over, every servo named in the batch
\* is at its demanded state (script_0_9a: the call ends by raising).
C9_DemandMatched9a ==
  (kind = "none" /\ task[Consumer] = "raised") =>
    \A id \in DOMAIN demand : servo[id].state = demand[id]

\* (C9, script_0_7) when match_demand is past the gather of a batch, every
\* servo named in it is at its demanded state and the result holds the new
\* state of each servo moved.
C9_DemandMatched07 ==
  (kind = "DataBuffer" /\ task[Consumer] = "sleep") =>
    /\ \A id \in DOMAIN demand : servo[id].state = demand[id]
    /\ DOMAIN md.result = {id \in Servos : demand[id] # startState[id]}
    /\ \A id \in DOMAIN md.result : md.result[id] = servo[id].state

\* (C9, set_on_off gathered as in script_0_9) when the gather of a batch is
\* over, every servo whose demand is OFF or ON is at its demanded state and
\* the result holds the new state of each servo moved.
C9_DemandMatchedSetOnOff ==
  (kind = "none" /\ task[Consumer] = "sleep") =>
    \A id \in DOMAIN demand :
      /\ demand[id] \in {OFF, ON} => servo[id].state = demand[id]
      /\ md.result[id] =
           (IF demand[id] \in {OFF, ON} /\ demand[id] # startState[id]
            THEN servo[id].state ELSE None)

\* C10: set_on_off with a demand equal to the servo's state is a no-op: the
\* step that runs it returns (no sleep), writes nothing to the PWM and
\* leaves state and pw_ns as they were.
C10_NoOp ==
  [][\A id \in Servos :
       (/\ kind = "none"
        /\ mv[id].pc = "called" /\ mv[id].demand_ = servo[id].state
        /\ mv'[id].pc # "called")
         => /\ mv'[id].pc = "returned" /\ mv'[id].result = None
            /\ writes'[id] = writes[id] /\ pwm'[id] = pwm[id]
            /\ servo'[id] = servo[id]]_vars

\* C10 witness: a set_on_off whose demand was the servo's state has
\* returned, while the transition of another servo is under way.
C10_Witness ==
  /\ kind = "none"
  /\ \E a, b \in Servos :
       /\ mv[a].pc = "returned" /\ mv[a].demand_ = ON /\ startState[a] = ON
       /\ mv[a].result = None /\ servo[a].state = ON /\ writes[a] = 0
       /\ mv[b].pc = "step"

\* the set_on_off tasks that have made a transition and returned
Moved9a == {id \in Group9a : mv[id].pc = "returned" /\ mv[id].result # None}

\* C11: one OFF->ON or ON->OFF transition makes x_steps (100) stepper
\* writes, each followed by one sleep, and one more write of the exact
\* target; the first value written is the pulse-width the transition starts
\* from and the last, before the zero duty, is exactly the target
\* (script_0_9a: no write follows the stepper but the zero duty).
C11_TransitionWrites9a ==
  \A id \in Moved9a :
    mv[id].drops = 0 =>
      /\ mv[id].sleeps = x_steps
      /\ mv[id].w_first = mv[id].start_pw
      /\ mv[id].w_last = mv[id].final_ns
      /\ writes[id] = x_steps + 3

\* (C11, script_0_7) a transition writes the start pulse-width, then makes
\* x_steps writes each followed by one sleep, the last of them the exact
\* target, then writes the zero duty.
C11_TransitionWrites07 ==
  kind = "DataBuffer" =>
    \A id \in Servos :
      /\ mv[id].pc = "loop" => writes[id] = mv[id].n + 1 /\ pwm[id] = mv[id].pw
      /\ mv[id].pc = "final" =>
           writes[id] = x_steps + 1 /\ pwm[id] = mv[id].demand_ns
      /\ mv[id].pc = "done" => writes[id] = x_steps + 2 /\ pwm[id] = 0

\* C12: when a transition finishes, the exact target pulse-width has been
\* written, the zero duty is the last write, and the servo's state is the
\* demanded state and its pw_ns exactly the demanded endpoint
\* (script_0_9a: the target is written only if the stepper happens to end
\* on it).
C12_FinishExact9a ==
  \A id \in Moved9a :
    /\ mv[id].hit
    /\ pwm[id] = 0
    /\ servo[id].state = mv[id].demand_
    /\ servo[id].pw_ns = (IF mv[id].demand_ = ON THEN on_ns9a(id) ELSE off_ns9a(id))

\* (C12, script_0_9a) what does hold: whenever no transition of the servo
\* is under way, state ON goes with pw_ns = on_ns and OFF with off_ns, and a
\* finished transition has left the zero duty and the demanded state.
C12_RestPosition9a ==
  \A id \in Group9a :
    /\ servo[id].pw_ns = (IF servo[id].state = ON THEN on_ns9a(id) ELSE off_ns9a(id))
    /\ id \in Moved9a => pwm[id] = 0 /\ servo[id].state = mv[id].demand_

\* (C12, script_0_7) the exact target is on the output during the last
\* sleep of a transition; when it finishes the output is zero, the state is
\* the demanded one and pw_ns exactly the demanded endpoint.
C12_FinishExact07 ==
  kind = "DataBuffer" =>
    \A id \in Servos :
      /\ mv[id].pc = "final" =>
           pwm[id] = (IF demand[id] = ON THEN on_ns(id) ELSE off_ns(id))
      /\ mv[id].pc = "done" =>
           /\ pwm[id] = 0 /\ servo[id].state = demand[id]
           /\ servo[id].pw_ns = (IF demand[id] = ON THEN on_ns(id) ELSE off_ns(id))
      /\ mv[id].pc \in {"none", "done"} =>
           servo[id].pw_ns = (IF servo[id].state = ON THEN on_ns(id) ELSE off_ns(id))

\* a duty the PWM may be given: the zero duty or a pulse-width in range
DutyOk(pw_) == pw_ = 0 \/ InRange(pw_)

\* C13: a pulse-width the stepper computes outside [PW_MIN, PW_MAX] is not
\* written: every duty written is 0 or in range; every step of the stepper
\* is either written or dropped and is followed by its sleep, so that a
\* transition with dropped writes still makes all x_steps steps and ends
\* with the zero duty and the demanded state.
C13_OutOfRangeDropped ==
  \A id \in Group9a :
    /\ DutyOk(pwm[id])
    /\ mv[id].w_first # None => InRange(mv[id].w_first)
    /\ mv[id].pc = "step" =>
         /\ mv[id].nw + mv[id].drops = mv[id].sleeps + 1
         /\ mv[id].sleeps = mv[id].x
    /\ id \in Moved9a =>
         /\ mv[id].sleeps = x_steps
         /\ mv[id].nw + mv[id].drops = x_steps + 2
         /\ pwm[id] = 0 /\ servo[id].state = mv[id].demand_

\* C13 witness: a transition in which writes were dropped has finished.
C13_Witness ==
  \E id \in Moved9a : mv[id].drops > 0 /\ mv[id].sleeps = x_steps

Abs(n) == IF n < 0 THEN -n ELSE n

DegInRange(degrees) == DEG_MIN <= degrees /\ degrees <= DEG_MAX

\* the lone servos constructed with both endpoint angles in range
InRangeEnds(id) == DegInRange(LoneOffDeg(id)) /\ DegInRange(LoneOnDeg(id))

\* the last value written by the stepper of a finished transition is less
\* than one step's increment |on_ns - off_ns| / x_steps away from the target
NearTarget(id) ==
  Abs(mv[id].w_last - mv[id].final_ns) * x_steps < Abs(on_ns9a(id) - off_ns9a(id))

DegreesMonotone ==
  /\ \A a, b \in DEG_MIN .. DEG_MAX :
       a < b => degrees_to_ns(a) < degrees_to_ns(b)
  /\ degrees_to_ns(DEG_MIN) = PW_MIN
  /\ degrees_to_ns(DEG_MAX) <= PW_MAX

\* C15: degrees_to_ns is monotonically increasing over the valid angle
\* range, with degrees_to_ns(DEG_MIN) = PW_MIN and degrees_to_ns(DEG_MAX) <=
\* PW_MAX; so a servo constructed with in-range angles off_deg < on_deg has
\* off_ns < on_ns, and the position it rests at is ordered the same way.
C15_Monotonic ==
  /\ DegreesMonotone
  /\ \A id \in Group9a :
       (InRangeEnds(id) /\ LoneOffDeg(id) < LoneOnDeg(id)) =>
         /\ off_ns9a(id) < on_ns9a(id)
         /\ PW_MIN <= off_ns9a(id) /\ on_ns9a(id) <= PW_MAX
         /\ servo[id].pw_ns = (IF servo[id].state = ON THEN on_ns9a(id) ELSE off_ns9a(id))

\* C15 witness: a servo constructed with the two limits of the angle range
\* has moved from DEG_MIN, at PW_MIN, to DEG_MAX.
C15_Witness ==
  \E id \in Moved9a :
    /\ LoneOffDeg(id) = DEG_MIN /\ LoneOnDeg(id) = DEG_MAX
    /\ off_ns9a(id) = PW_MIN
    /\ servo[id].state = ON /\ servo[id].pw_ns = degrees_to_ns(DEG_MAX)
    /\ servo[id].pw_ns > off_ns9a(id)

\* C16: an angle outside [DEG_MIN, DEG_MAX] is converted without failing to
\* the centre position PW_CTR (script_0_9: to the pulse-width of the centre
\* angle DEG_CTR), so that whatever the angles a servo is constructed with,
\* its off_ns and on_ns, and the position it is at, lie in [PW_MIN, PW_MAX].
C16_AngleFallback ==
  \A id \in Group9a :
    /\ ~DegInRange(LoneOffDeg(id)) =>
         off_ns9a(id) = PW_CTR /\ off_ns09(id) = degrees_to_ns_09(DEG_CTR)
    /\ ~DegInRange(LoneOnDeg(id)) =>
         on_ns9a(id) = PW_CTR /\ on_ns09(id) = degrees_to_ns_09(DEG_CTR)
    /\ InRange(off_ns9a(id)) /\ InRange(on_ns9a(id))
    /\ InRange(off_ns09(id)) /\ InRange(on_ns09(id))
    /\ InRange(servo[id].pw_ns)

\* C16 witness: a servo constructed with off_deg below DEG_MIN and on_deg
\* above DEG_MAX has been moved, and rests at PW_CTR.
C16_Witness ==
  \E id \in Moved9a :
    /\ LoneOffDeg(id) < DEG_MIN /\ LoneOnDeg(id) > DEG_MAX
    /\ servo[id].pw_ns = PW_CTR

\* the profile names that are keys of motion_coords, and 'semaphore'
NamedMotions == motion_set

\* the lone servos constructed with a name that is not a named profile
UnknownMotion(id) == LoneMotion(id) \notin NamedMotions

\* the set_on_off tasks that are in a transition or have finished one
InTransition9a == {id \in Group9a : mv[id].pc = "step"} \cup Moved9a

\* C17 (script_0_9a, script_0_9): a servo constructed with a profile name
\* that is not a named profile is bound to 'linear' for both directions,
\* and steps through the 'linear' checkpoints on every transition.
C17_ProfileFallback ==
  \A id \in Group9a :
    UnknownMotion(id) =>
      /\ on_coords(id) = motion_coords("linear")
      /\ off_coords(id) = motion_coords("linear")
      /\ coords09(id) = motion_coords09("linear")
      /\ id \in InTransition9a => mv[id].coords = motion_coords("linear")

\* C17: constructing a servo with a profile name that is not a named
\* profile never fails and binds 'linear' for both directions
\* (script_0_9b: the look-up of the name raises KeyError).
C17_ProfileFallback9b ==
  \A id \in Group9a :
    UnknownMotion(id) =>
      /\ on_coords9b(id) = motion_coords9b("linear")
      /\ off_coords9b(id) = motion_coords9b("linear")

\* C18: a servo configured with 'semaphore' steps through the 'overshoot'
\* checkpoints on every transition to ON and through the 'bounce'
\* checkpoints on every transition to OFF; with any other profile name the
\* same checkpoints are used in both directions.
C18_Semaphore ==
  \A id \in Group9a :
    /\ IF LoneMotion(id) = "semaphore"
       THEN /\ on_coords(id) = motion_coords("overshoot")
            /\ off_coords(id) = motion_coords("bounce")
            /\ on_coords9b(id) = motion_coords9b("overshoot")
            /\ off_coords9b(id) = motion_coords9b("bounce")
       ELSE /\ on_coords(id) = off_coords(id)
            /\ on_coords9b(id) = off_coords9b(id)
    /\ id \in InTransition9a =>
         mv[id].coords =
           (IF LoneMotion(id) = "semaphore"
            THEN (IF mv[id].demand_ = ON THEN motion_coords("overshoot")
                  ELSE motion_coords("bounce"))
            ELSE motion_coords(Motion9a(id)))

\* C18 witness: a 'semaphore' servo is half-way through the 'bounce'
\* checkpoints on its way to OFF.
C18_Witness ==
  \E id \in Group9a :
    /\ LoneMotion(id) = "semaphore"
    /\ mv[id].pc = "step" /\ mv[id].demand_ = OFF
    /\ mv[id].coords = motion_coords("bounce") /\ mv[id].k = 3

\* C17 witness (script_0_9a): a servo constructed with a name that is not a
\* named profile has made a transition through the 'linear' checkpoints.
C17_Witness ==
  \E id \in Moved9a :
    UnknownMotion(id) /\ mv[id].coords = motion_coords("linear")

\* C19: get_state_db takes n_readings = 3 raw samples with a sleep between
\* consecutive samples (n_readings - 1 sleeps, none after the last) and
\* returns 1 (on) if and only if every one of the samples read closed (raw
\* 0); if any sample read open (raw 1) it returns 0 (off).
C19_Debounce ==
  /\ n_readings = 3
  /\ \A pin \in sw.pins :
       /\ sw.pc[pin] = "sleep" =>
            /\ Len(sw.raw[pin]) = sw.sleeps[pin]
            /\ sw.sleeps[pin] <= n_readings - 1
       /\ sw.pc[pin] = "done" =>
            /\ Len(sw.raw[pin]) = n_readings
            /\ sw.sleeps[pin] = n_readings - 1
            /\ sw.result[pin] \in {0, 1}
            /\ sw.result[pin] = 1 <=> \A k \in 1 .. n_readings : sw.raw[pin][k] = 0
            /\ (\E k \in 1 .. n_readings : sw.raw[pin][k] = 1) => sw.result[pin] = 0

\* C19 witness: in a second poll one switch has returned on, all its
\* samples closed, and another off with a single sample open, the last.
C19_Witness ==
  /\ sw.servo_demand # <<>>
  /\ \E a, b \in sw.pins :
       /\ sw.pc[a] = "done" /\ sw.raw[a] = <<0, 0, 0>> /\ sw.result[a] = 1
       /\ sw.pc[b] = "done" /\ sw.raw[b] = <<0, 0, 1>> /\ sw.result[b] = 0

\* the servos bound to the switches of a set
BoundTo(pins, switch_servos_) ==
  UNION {{switch_servos_[pin][k] : k \in 1 .. Len(switch_servos_[pin])} : pin \in pins}

\* the observed switches a servo is bound to
SwitchesOf(pins, switch_servos_, servo_pin) ==
  {pin \in pins : \E k \in 1 .. Len(switch_servos_[pin]) : switch_servos_[pin][k] = servo_pin}

\* the servo is bound to one observed switch only
BoundOnce(pins, switch_servos_, servo_pin) ==
  Cardinality(SwitchesOf(pins, switch_servos_, servo_pin)) = 1

\* C20: get_servo_demand returns a batch that maps every servo bound to an
\* observed switch to the state of that switch and holds no other servo,
\* and it leaves the states and the bindings it was given unchanged (a
\* servo bound to two observed switches has one state in the batch: C21).
C20_Route ==
  [][(sw.main = "gather_go" /\ sw'.main = "sleep") =>
       /\ sw'.states = [pin \in sw.pins |-> sw.result[pin]]
       /\ sw'.switch_servos = sw.switch_servos
       /\ DOMAIN sw'.servo_demand = BoundTo(sw.pins, sw.switch_servos)
       /\ \A pin \in sw.pins :
            \A k \in 1 .. Len(sw.switch_servos[pin]) :
              BoundOnce(sw.pins, sw.switch_servos, sw.switch_servos[pin][k]) =>
                sw'.servo_demand[sw.switch_servos[pin][k]] = sw.result[pin]]_vars

\* C20 witness: switch map {16: [0, 1], 17: [2]} and states {16: 1, 17: 0}
\* have given the batch {0: 1, 1: 1, 2: 0}.
C20_Witness ==
  /\ sw.main = "sleep"
  /\ sw.pins = {16, 17}
  /\ sw.switch_servos[16] = <<0, 1>> /\ sw.switch_servos[17] = <<2>>
  /\ sw.states = [pin \in {16, 17} |-> IF pin = 16 THEN 1 ELSE 0]
  /\ sw.servo_demand = [id \in {0, 1, 2} |-> IF id = 2 THEN 0 ELSE 1]

\* the place of a switch in the order in which the states were iterated
PlaceOf(order, pin) == CHOOSE i \in 1 .. Len(order) : order[i] = pin

\* the switch bound to the servo that comes last in the order of iteration
LastSwitchOf(order, pins, switch_servos_, servo_pin) ==
  CHOOSE pin \in SwitchesOf(pins, switch_servos_, servo_pin) :
    \A other \in SwitchesOf(pins, switch_servos_, servo_pin) :
      PlaceOf(order, other) <= PlaceOf(order, pin)

\* C21: when a servo is bound to two switches whose observed states
\* conflict, the batch produced by get_servo_demand holds for it the state
\* of the switch that comes last in the iteration order of the states.
C21_LastWriteWins ==
  sw.servo_demand # <<>> =>
    \A servo_pin \in DOMAIN sw.servo_demand :
      sw.servo_demand[servo_pin] =
        sw.states[LastSwitchOf(sw.order, sw.pins, sw.switch_servos, servo_pin)]

\* C21 witness: servo 1 is bound to switches 16 and 17, which read on and
\* off; 16 was iterated last and the batch holds on for servo 1.
C21_Witness ==
  /\ sw.main = "sleep" /\ sw.pins = {16, 17}
  /\ SwitchesOf(sw.pins, sw.switch_servos, 1) = {16, 17}
  /\ sw.states[16] = 1 /\ sw.states[17] = 0
  /\ sw.order = <<17, 16>>
  /\ sw.servo_demand[1] = 1

\* a step that takes no item out of a single-slot mailbox holding an unread
\* item: the slot keeps the item and no put completes
SlotKept ==
  (kind \in SingleSlot /\ Count = 1 /\ gotLog' = gotLog) =>
    (q'.item = q.item /\ putLog' = putLog /\ sent' = sent)

\* what a single-slot mailbox holds and has delivered
SlotDelivers ==
  kind \in SingleSlot =>
    /\ Count \in {0, 1}
    /\ Count = 1 => q.item = putLog[Len(putLog)] /\ ~q.is_space.state
    /\ \A p \in Producers : task[p] = "space_wait" => Count = 1
    /\ \A i \in 1 .. Len(gotLog) : gotLog[i] = putLog[i]
    /\ NoDuplicates(putLog)
    /\ Quiescent => gotLog = putLog /\ RangeOf(gotLog) = AllItems

\* C22: CharBuffer, KeyBuffer and DataBuffer block rather than overwrite: a
\* put() issued while the slot holds an unread item does not complete and
\* does not change the slot until a get() has taken the item, and every
\* item put is returned by exactly one get() (the gets return the puts in
\* order, once each, and all of them when no task can run any more).
C22_BlockNotOverwrite == [](SlotDelivers) /\ [][SlotKept]_vars

\* C22 witness: a KeyBuffer holding an unread item after an earlier get,
\* one producer suspended in put() on is_space, the other on the lock.
C22_Witness ==
  /\ kind = "KeyBuffer" /\ Count = 1 /\ Len(gotLog) >= 1
  /\ \E p1, p2 \in Producers :
       task[p1] = "space_wait" /\ task[p2] = "lock_wait"

\* C23: every polling loop and the stepping loop are suspended at least
\* once in each iteration: no iteration of Button.poll_input,
\* KeyPad.key_input, the loop of set_servos or the stepper ends without a
\* suspension, and an iteration of the stepper has exactly one (its sleep),
\* so that the stepper has slept once for every step made.
C23_LoopsYield ==
  /\ ~lp.dry
  /\ lp.iters > 0 => lp.last >= 1
  /\ lp.prog = "stepper" =>
       /\ lp.iters > 0 => lp.last = 1
       /\ lp.iters = IF lp.pc = "susp" THEN lp.x - 1 ELSE lp.x

\* C23 witness: an iteration of poll_input that queued a release with space
\* in the queue at both waits has ended: of its five await points only the
\* sleep suspended the task.
C23_Witness ==
  /\ lp.prog = "poll_input" /\ lp.pc = "head"
  /\ lp.last_awaits = 5 /\ lp.last = 1 /\ lp.iters >= 2

\* a step on a full Queue in which no get() returns: no put completes,
\* nothing is raised, the producer suspended on is_space stays there with
\* put_lock held, and the producers waiting for the lock keep waiting
FullNoGet ==
  (kind = "Queue" /\ Count = q.length /\ gotLog' = gotLog) =>
    /\ putLog' = putLog /\ sent' = sent
    /\ ~raised'
    /\ \A p \in Producers :
         /\ task[p] = "space_wait" =>
              task'[p] = "space_wait" /\ q'.put_lock.state = 1
         /\ task[p] = "lock_wait" => task'[p] = "lock_wait"
         /\ task'[p] # "space_go"

\* C24: the channel has no timeout and no cancellation: while no get() is
\* performed on a full Queue, a pending put() does not complete and does not
\* raise, it keeps put_lock, and so no later put() of another producer
\* completes either.
C24_NoTimeout == [][FullNoGet]_vars

\* C24 witness: a Queue of the largest capacity filled without any get(),
\* one producer suspended in put() holding put_lock, the other suspended on
\* the lock, the consumer never having called get().
C24_Witness ==
  /\ kind = "Queue" /\ q.length = MaxLen /\ Count = q.length
  /\ gotLog = <<>> /\ task[Consumer] = "run"
  /\ q.put_lock.state = 1
  /\ \E p1, p2 \in Producers :
       task[p1] = "space_wait" /\ task[p2] = "lock_wait"

\* the transition task of a servo is in flight
InFlight7(m) == m.pc \in {"created", "loop", "final"}

\* the step in which match_demand's buffer.get() returns a batch
BatchTaken == q.is_data.state /\ ~q'.is_data.state

\* a step writes the state and the stored position of a servo only as the
\* end of that servo's own transition, and transition tasks are made only
\* when a batch is taken, with no transition of any servo in flight
OwnTransitionOnly ==
  \A id \in Servos :
    /\ servo'[id] # servo[id] =>
         /\ mv[id].pc = "final" /\ mv'[id].pc = "done"
         /\ \A j \in Servos \ {id} : mv'[j] = mv[j] /\ servo'[j] = servo[j]
         /\ servo'[id] = [state |-> IF mv[id].op = "move_on" THEN ON ELSE OFF,
                          pw_ns |-> mv[id].demand_ns]
    /\ (mv'[id].pc = "created" /\ mv[id].pc # "created") => BatchTaken
    /\ BatchTaken => ~InFlight7(mv[id])

\* C25: in script_0_7 the state and the stored position of a servo are
\* written only by that servo's own transition (move_on / move_off through
\* move_servo), at its end, and at most one transition of a servo is in
\* flight at any time, whatever batches are put.
C25_OwnTransition == [][OwnTransitionOnly]_vars

\* C25 witness: of two transitions of one batch one has ended and written
\* its servo's state while the other, still in flight, has written nothing
\* of its own servo.
C25_Witness ==
  /\ kind = "DataBuffer"
  /\ \E id, j \in Servos :
       /\ mv[id].pc = "final" /\ servo[id].state = startState[id]
       /\ mv[j].pc = "done" /\ servo[j].state # startState[j]
       /\ servo[j].pw_ns = mv[j].demand_ns

\* the state of every servo is OFF or ON, and while its stepper runs it
\* still is the state the servo had when the batch was taken
StateOffOrOn ==
  \A id \in Group9a :
    /\ servo[id].state \in {OFF, ON}
    /\ mv[id].pc = "step" =>
         /\ servo[id].state = startState[id]
         /\ mv[id].demand_ \in {OFF, ON} \ {servo[id].state}

\* the stepper of task m has made the last step of its profile
StepperComplete(m) ==
  m.k = Len(m.coords) /\ m.x = m.coords[m.k][1] /\ m.x = x_steps

\* a step changes the state of a servo only as the return of its set_on_off
\* from a completed stepper run, to the other state; such a return always
\* changes it; a demand that is neither OFF nor ON returns with nothing
\* written
StateEdges ==
  \A id \in Group9a :
    /\ servo'[id].state # servo[id].state =>
         /\ mv[id].pc = "step" /\ mv'[id].pc = "returned"
         /\ StepperComplete(mv'[id])
         /\ servo'[id].state = mv[id].demand_
         /\ <<servo[id].state, servo'[id].state>> \in {<<OFF, ON>>, <<ON, OFF>>}
    /\ (mv[id].pc = "step" /\ mv'[id].pc = "returned") =>
         servo'[id].state # servo[id].state
    /\ (mv[id].pc = "called" /\ mv[id].demand_ \notin {OFF, ON}
          /\ mv'[id] # mv[id]) =>
         /\ mv'[id].pc = "returned" /\ mv'[id].nw = 0
         /\ servo'[id] = servo[id]
         /\ pwm'[id] = pwm[id] /\ writes'[id] = writes[id]

\* C26: once initialised, the state of a servo of script_0_9a is always OFF
\* or ON; it changes only OFF -> ON and ON -> OFF, exactly when set_on_off
\* returns from a completed stepper run; while the stepper runs the state
\* is still the old one; a demand that is neither OFF nor ON leaves the
\* servo as it is and writes nothing to the PWM.
C26_StateMachine == [](StateOffOrOn) /\ [][StateEdges]_vars

\* C26 witness: in one batch a servo given the demand 2 has returned with
\* no write and its state kept, and another has returned from its stepper
\* with its state changed.
C26_Witness ==
  \E id, j \in Group9a :
    /\ mv[id].pc = "returned" /\ servo[id].state # startState[id]
    /\ StepperComplete(mv[id])
    /\ mv[j].pc = "returned" /\ mv[j].demand_ = 2
    /\ writes[j] = 0 /\ servo[j].state = startState[j]

\* C26, script_0_7: the state of a servo is OFF or ON, is the old one while
\* move_servo runs, and changes to the other state only as the end of
\* move_on / move_off.
C26_StateMachine07 ==
  /\ [](\A id \in Servos :
          /\ servo[id].state \in {OFF, ON}
          /\ InFlight7(mv[id]) => servo[id].state = startState[id])
  /\ [][\A id \in Servos :
          servo'[id].state # servo[id].state =>
            /\ mv[id].pc = "final" /\ mv'[id].pc = "done"
            /\ <<servo[id].state, servo'[id].state>>
                 \in {<<OFF, ON>>, <<ON, OFF>>}]_vars

\* producer p is between the acquisition of put_lock and the end of its
\* write: suspended on is_space, scheduled from it, or handed the lock
InRegion(p) == task[p] \in {"space_wait", "space_go", "lock_go"}

\* at most one producer is in the region, the lock is taken exactly when
\* one is, and every other producer inside put() waits for the lock
OneInRegion ==
  /\ Cardinality({p \in Producers : InRegion(p)}) <= 1
  /\ (q.put_lock.state # 0) <=> (\E p \in Producers : InRegion(p))
  /\ \A p \in Producers :
       /\ task[p] \in {"run", "lock_wait", "space_wait", "space_go", "lock_go"}
       /\ task[p] \in {"space_wait", "space_go"} => q.put_lock.state = 1
       /\ task[p] = "lock_go" => q.put_lock.state = 2
       /\ task[p] = "lock_wait" =>
            \E i \in 1 .. Len(q.put_lock.waiting) : q.put_lock.waiting[i] = p

\* a step that writes the ring, the slot or the tail index, sets is_data or
\* clears is_space is the end of the put() of one producer, which was the
\* one in the region or took the free lock in that step
WriteUnderLock ==
  (\/ q'.queue # q.queue \/ q'.next # q.next \/ q'.item # q.item
   \/ (~q.is_data.state /\ q'.is_data.state)
   \/ (q.is_space.state /\ ~q'.is_space.state)) =>
    \E p \in Producers :
      /\ sent' = [sent EXCEPT ![p] = @ + 1]
      /\ task'[p] = "run"
      /\ \/ task[p] \in {"space_go", "lock_go"}
         \/ task[p] = "run" /\ q.put_lock.state = 0
      /\ \A o \in Producers \ {p} : ~InRegion(o)

\* C27: producers write the ring buffer (or the slot), the tail index and
\* the flags only while holding put_lock: at most one producer is between
\* acquiring the lock and finishing its write, so at most one is suspended
\* on is_space while the other producers inside put() wait for the lock.
C27_PutRegion == [](OneInRegion) /\ [][WriteUnderLock]_vars

\* C27 witness: a CharBuffer whose consumer has just taken the item: the
\* producer suspended on is_space is scheduled, still holding the lock the
\* other producer waits for.
C27_Witness ==
  /\ kind = "CharBuffer" /\ q.put_lock.state = 1
  /\ \E p1, p2 \in Producers :
       task[p1] = "space_go" /\ task[p2] = "lock_wait"

\* a step in which a get() returns although the Queue, consistent until
\* then, holds no unread item
GetOnEmpty ==
  /\ Len(gotLog') = Len(gotLog) + 1
  /\ Count = 0 /\ Queue_q_len(q) = 0 /\ q.head = q.next

\* such a get() is the resumption of a consumer that a put had scheduled;
\* it returns the initial None or a value returned before, moves head one
\* place past next, and in a ring of two or more slots leaves q_len at
\* length - 1 with nothing unread
StaleGet ==
  GetOnEmpty =>
    /\ \E c \in Consumers2 : task[c] = "data_go" /\ task'[c] = "run"
    /\ gotLog'[Len(gotLog')] \in {None} \cup RangeOf(gotLog)
    /\ q'.head = NextIndex(q.next, q.length) /\ q'.next = q.next
    /\ q.length > 1 => Queue_q_len(q') = q.length - 1
    /\ Len(gotLog') > Len(putLog')

\* is_data.set() leaves no consumer suspended on is_data
AllWoken == q.is_data.state => q.is_data.waiting = <<>>

\* C28: with two tasks calling Queue.get(), one put() schedules both of
\* them when both are suspended on is_data, and the get() that resumes
\* second returns a slot with no unread item: head moves past next, the
\* value is the same as one returned before or a stale one, and q_len no
\* longer is the number of unread items.
C28_TwoConsumers == [](AllWoken) /\ [][StaleGet]_vars

\* C28 witness: after one put() into a Queue of two slots both consumers
\* have returned from get(): the second got the initial None, head is past
\* next and q_len is 1 with nothing unread.
C28_Witness ==
  /\ kind = "Queue" /\ q.length = 2
  /\ Len(putLog) = 1 /\ Len(gotLog) = 2
  /\ gotLog[1] = putLog[1] /\ gotLog[2] = None
  /\ q.head = NextIndex(q.next, q.length)
  /\ Queue_q_len(q) = 1
  /\ \A c \in Consumers2 : task[c] = "run"

\* the x checkpoints of a profile increase strictly from above 0 and the
\* profile ends at (100, 100)
WellFormed(coords) ==
  /\ Len(coords) >= 1
  /\ coords[1][1] > 0
  /\ \A k \in 1 .. Len(coords) - 1 : coords[k][1] < coords[k + 1][1]
  /\ coords[Len(coords)] = <<x_steps, 100>>

\* C29: every profile of the tables (linear, overshoot, bounce, s_curve,
\* slowing of script_0_9, script_0_9a and script_0_9b) has strictly
\* increasing x checkpoints that start above 0 and end at (100, 100); in the
\* stepper every segment divisor x1 - x_0 is positive, nothing is raised,
\* and the stepper ends after exactly x_steps = 100 iterations.
C29_Profiles ==
  /\ \A coords \in BuiltInProfiles : WellFormed(coords)
  /\ lp.prog = "stepper" =>
       /\ lp.coords \in BuiltInProfiles
       /\ lp.pc # "raised"
       /\ \A i \in 1 .. Len(lp.divs) : lp.divs[i] > 0
       /\ lp.x <= x_steps /\ lp.iters <= x_steps
       /\ lp.pc = "done" =>
            lp.iters = x_steps /\ lp.x = x_steps /\ Len(lp.divs) = Len(lp.coords)

\* C29 witness: the stepper has ended on the six-segment 'slowing' profile
\* of script_0_9b after 100 iterations.
C29_Witness ==
  /\ lp.prog = "stepper" /\ lp.pc = "done"
  /\ lp.coords = motion_coords9b("slowing")
  /\ lp.iters = x_steps /\ Len(lp.divs) = 6

\* every put() and every get() that has been called returns
CallsReturn == \A t \in Tasks : (task[t] # "run") ~> (task[t] = "run")

\* every value of every producer is put and received, and no task is left
\* suspended
AllDelivered ==
  <>[](/\ Len(gotLog) = NProducers * MaxPuts
       /\ \A p \in Producers : sent[p] = MaxPuts
       /\ \A t \in Tasks : task[t] = "run")

\* C30: under a fair scheduler no wake-up is lost and put_lock, is_space and
\* is_data do not deadlock: with the consumer going on calling get() every
\* put() of every producer completes, with the producers going on putting
\* every get() completes, and in the end everything put has been received.
C30_Progress == CallsReturn /\ AllDelivered

\* C30 witness: the consumer is suspended on is_data of an empty channel
\* while the producer that holds the lock has only been scheduled from
\* is_space and the other producer is suspended on the lock: every task
\* depends on a wake-up.
C30_Witness ==
  /\ task[Consumer] = "data_wait" /\ Count = 0
  /\ \E p1, p2 \in Producers :
       task[p1] = "space_go" /\ task[p2] = "lock_wait"

AllDone ==
  /\ Len(gotLog) = NProducers * MaxPuts
  /\ \A p \in Producers : sent[p] = MaxPuts
  /\ \A t \in Tasks : task[t] = "run"

InList(t, seq) == \E i \in 1 .. Len(seq) : seq[i] = t

\* C30, as invariants: a suspended task is in the waiting list of the event
\* or lock it waits for, whose flag is then clear (the next set() or
\* release() schedules it), and some task can run in every state in which
\* something is left to do.
C30_NoLostWakeup ==
  /\ \A p \in Producers :
       /\ task[p] = "space_wait" =>
            ~q.is_space.state /\ InList(p, q.is_space.waiting)
       /\ task[p] = "lock_wait" =>
            q.put_lock.state # 0 /\ InList(p, q.put_lock.waiting)
  /\ task[Consumer] = "data_wait" =>
       ~q.is_data.state /\ InList(Consumer, q.is_data.waiting)
  /\ AllDone \/ ENABLED NextChannel

\* what is left to do: for every call not yet made six (producer) or four
\* (consumer), less as the call in hand advances
WorkLeft ==
  LET w(pos) == CASE pos = "run" -> 5 [] pos = "lock_wait" -> 4
                  [] pos = "lock_go" -> 3 [] pos = "space_wait" -> 2
                  [] pos = "space_go" -> 1 [] OTHER -> 0
      v(pos) == CASE pos = "run" -> 3 [] pos = "data_wait" -> 2
                  [] pos = "data_go" -> 1 [] OTHER -> 0
      RECURSIVE Sum(_)
      Sum(S) == IF S = {} THEN 0
                ELSE LET p == CHOOSE x \in S : TRUE
                     IN 6 * (MaxPuts - sent[p]) + w(task[p]) + Sum(S \ {p})
  IN Sum(Producers)
       + 4 * (NProducers * MaxPuts - Len(gotLog)) + v(task[Consumer])

\* C30, as a variant: every step of a task reduces what is left to do, so
\* no task runs for ever and every behaviour ends.
C30_Variant == [][WorkLeft' < WorkLeft /\ WorkLeft' >= 0]_vars

Overwritten ==
  {putLog[i] : i \in 1 .. Len(putLog) - 1} \ RangeOf(gotLog)

\* add() completes in the step that calls it, whatever is_data says: the
\* item is in the buffer, is_data is set and the caller is at its sleep
AddCompletes ==
  putLog' # putLog =>
    /\ q'.item = putLog'[Len(putLog')] /\ q'.is_data.state
    /\ \A p \in Producers : task'[p] \in {"run", "sleep", "sleep_held"}

\* pop() returns the value of the last add(), and a value overwritten
\* unread is never returned
PopLatest ==
  /\ gotLog' # gotLog =>
       /\ putLog # <<>>
       /\ gotLog' = Append(gotLog, putLog[Len(putLog)])
  /\ Overwritten \subseteq Overwritten'

\* C32: the KeyBuffer of led_pwm.py overwrites instead of blocking: add()
\* always completes at once, and after two add() calls with no pop() between
\* them the first item is lost and the next pop() returns the second.
C32_Overwrite == [][AddCompletes /\ PopLatest]_vars

\* C32 witness: two values were added before print_buffer ran; it has popped
\* the second, and the first was never read.
C32_Witness ==
  /\ kind = "led_pwm" /\ Len(putLog) = 2
  /\ gotLog = <<putLog[2]>> /\ Overwritten = {putLog[1]}
  /\ task[Consumer] = "data_wait"

\* a Queue of one slot seen as a CharBuffer: the slot is the item
AsCharBuffer(s) ==
  [s EXCEPT !.q.item = s.q.queue[s.q.head],
            !.q.queue = [i \in 0 .. 0 |-> None],
            !.q.head = 0, !.q.next = 0]

\* a CharBuffer is seen as it is
Seen(s) == IF kind = "Queue" THEN AsCharBuffer(s) ELSE s

\* the state in which put() / get() of the channel object leaves task t
\* when the task resumes it at position pos
ChannelPut(s, t, item, pos) ==
  CASE pos = "run" -> PutEnter(s, t, item)
    [] pos = "lock_go" -> PutLocked(Lock_take([s EXCEPT !.task[t] = "run"]), t, item)
    [] pos = "space_go" -> PutFinish(s, t, item)

ChannelGet(s, t, pos) ==
  CASE pos = "run" -> GetEnter(s, t)
    [] pos = "data_go" -> GetFinish(s, t)

\* from state s seen as a CharBuffer state c, every step of every task
\* leaves the channel object in a state that is seen as the state
\* CharBuffer leaves, and get() returns the same value
SameSteps(s, c) ==
  /\ \A p \in Producers :
       task[p] \in {"run", "lock_go", "space_go"} =>
         Seen(ChannelPut(s, p, ItemOf(p, sent[p]), task[p]))
           = CharBuffer_put(c, p, ItemOf(p, sent[p]), task[p])
  /\ task[Consumer] \in {"run", "data_go"} =>
       /\ Seen(ChannelGet(s, Consumer, task[Consumer]))
            = CharBuffer_get(c, Consumer, task[Consumer])
       /\ GetItem(s.q) = CharBuffer_item(c.q)
  /\ c.task = s.task /\ c.raised = s.raised
  /\ c.q.is_data = s.q.is_data /\ c.q.is_space = s.q.is_space
  /\ c.q.put_lock = s.q.put_lock

\* C33: a Queue of length 1 and a CharBuffer are observationally equivalent:
\* from the same start, with the Queue slot read as the CharBuffer item,
\* every put and get step by every task suspends or completes alike and
\* leaves the same flags, lock and waiting lists, and get() returns the same
\* value; the CharBuffer steps are those of CharBuffer.put and get.
C33_QueueOneIsCharBuffer ==
  (kind = "CharBuffer" \/ (kind = "Queue" /\ q.length = 1)) =>
    SameSteps(Cur, Seen(Cur))

\* C33 witness: a full Queue of one slot after a get and a second put, one
\* producer suspended on is_space under the lock, the other on the lock.
C33_Witness ==
  /\ kind = "Queue" /\ q.length = 1
  /\ Len(gotLog) >= 1 /\ Count = 1
  /\ q.is_data.state /\ ~q.is_space.state
  /\ \E p1, p2 \in Producers :
       task[p1] = "space_wait" /\ task[p2] = "lock_wait"

InButtons == kind \in {"script_0_10", "script_0_10b"}

\* slots read so far by button_event
Popped ==
  IF kind = "script_0_10"
  THEN 2 * Len(gotLog) + (IF btn[Consumer].stage = 2 THEN 1 ELSE 0)
  ELSE Len(gotLog)

\* C34 as stated: in script_0_10 and script_0_10b, add() is never executed
\* on a full queue, for every capacity and every interleaving of the button
\* tasks and button_event: the slots added and not yet read never exceed
\* max_len (no unread value is overwritten, next never passes head).
C34_NeverAddOnFull ==
  InButtons => Len(putLog) - Popped <= q.max_len

\* C35 as stated: every (btn_id, btn_event) pair read by button_event in
\* script_0_10 is the id and the event queued for one release of one button.
C35_PairsOfOneRelease ==
  kind = "script_0_10" =>
    \A i \in 1 .. Len(gotLog) :
      \E p \in Producers, k \in 0 .. MaxPuts - 1 :
        /\ gotLog[i][1].src = <<p, k, "id">>
        /\ gotLog[i][2].src = <<p, k, "event">>

\* the places in putLog of the slots added by button p for release k as part
PlacesOf(p, k, part) ==
  {i \in 1 .. Len(putLog) : putLog[i].src = <<p, k, part>>}

\* what has been queued: for every release handled one id followed by one
\* event (script_0_10) or one byte (script_0_10b), for the release in hand
\* the id at most, nothing else; the id is that of the button, numbered
\* from 0 in construction order, the event is the one computed
QueuedPerRelease ==
  \A p \in Producers, k \in 0 .. MaxPuts - 1 :
    LET ids == PlacesOf(p, k, "id")
        evs == PlacesOf(p, k, "event")
        bytes == PlacesOf(p, k, "byte")
        half == /\ k = sent[p] /\ btn[p].at = 2
                /\ task[p] \in {"space_wait", "space_go"}
    IN /\ kind = "script_0_10" =>
            /\ bytes = {}
            /\ Cardinality(ids) = (IF k < sent[p] \/ half THEN 1 ELSE 0)
            /\ Cardinality(evs) = (IF k < sent[p] THEN 1 ELSE 0)
            /\ \A i \in ids, j \in evs : i < j
       /\ kind = "script_0_10b" =>
            /\ ids = {} /\ evs = {}
            /\ Cardinality(bytes) = (IF k < sent[p] THEN 1 ELSE 0)
       /\ \A i \in ids : putLog[i].v = p - 1
       /\ \A i \in evs : putLog[i].v \in {1, 2}
       /\ \A i \in bytes :
            /\ decode_id_data(putLog[i].v)[1] = p - 1
            /\ decode_id_data(putLog[i].v)[2] \in {1, 2}
       /\ (k = sent[p] - 1 /\ task[p] \in {"run", "sleep"}) =>
            /\ \A i \in evs : putLog[i].v = btn[p].event
            /\ \A i \in bytes : decode_id_data(putLog[i].v)[2] = btn[p].event

\* click (1) when the time from the observed press to the observed release
\* is below hold_t, hold (2) otherwise
ClickOrHold ==
  \A p \in Producers :
    btn[p].event # 0 =>
      /\ btn[p].event = 1 <=> btn[p].hold_t < 750
      /\ btn[p].event = 2 <=> btn[p].hold_t >= 750

\* nothing is queued in the step that observes a press; what a step queues
\* is queued by one button for the release it has in hand, after a press
QueuedAtRelease ==
  /\ \A p \in Producers :
       (btn[p].prev_state = 1 /\ btn'[p].prev_state = 0) => putLog' = putLog
  /\ putLog' # putLog =>
       \E p \in Producers :
         /\ btn[p].prev_state = 0
         /\ Len(putLog') > Len(putLog)
         /\ \A i \in Len(putLog) + 1 .. Len(putLog') :
              putLog'[i].src[1] = p /\ putLog'[i].src[2] = sent[p]

\* C38: Button.poll_input queues exactly one event for every press-then-
\* release it observes, at the release and never at the press; the event is
\* click (1) if the time between them is less than hold_t (750 ms) and hold
\* (2) otherwise, and it carries the id of the button, the ids being
\* distinct and 0, 1, 2, .. in construction order.
C38_OneEventPerRelease ==
  /\ [](InButtons => QueuedPerRelease /\ ClickOrHold)
  /\ [][InButtons => QueuedAtRelease]_vars

\* C38 witness: the second button constructed has queued a click and then a
\* hold, each as its id 1 followed by the event.
C38_Witness ==
  /\ kind = "script_0_10" /\ sent[2] = 2
  /\ \E i \in PlacesOf(2, 0, "event"), j \in PlacesOf(2, 1, "event") :
       /\ putLog[i].v = 1 /\ putLog[j].v = 2
       /\ putLog[i - 1] = [v |-> 1, src |-> <<2, 0, "id">>]
  /\ btn[2].hold_t = 750

\* the step in which a put() of run_states writes its batch
BatchPut ==
  \/ ~q.is_data.state /\ q'.is_data.state
  \/ q.is_space.state /\ ~q'.is_space.state

\* put() writes into the empty buffer only, and get() takes the batch of
\* the latest put() when no transition is in flight: puts and takes
\* alternate, so the batches are applied one at a time in the order put
OneAtATime ==
  /\ BatchPut =>
       /\ ~q.is_data.state /\ q'.is_data.state /\ ~q'.is_space.state
       /\ task'[Producer7] = "run"
  /\ BatchTaken =>
       /\ demand' = q.item /\ q'.item = q.item /\ q'.is_space.state
       /\ \A id \in Servos : ~InFlight7(mv[id])
  /\ \A id \in Servos :
       (mv[id].pc = "created" /\ mv'[id].pc # "created") =>
         /\ demand' = demand /\ demand[id] # startState[id]
         /\ mv[id].op = (IF demand[id] = ON THEN "move_on" ELSE "move_off")

\* while a batch waits in the buffer, a further put() suspends and writes
\* nothing
FurtherPutSuspends ==
  (q.is_data.state /\ task[Producer7] = "run" /\ task'[Producer7] # "run") =>
    /\ task'[Producer7] = "space_wait"
    /\ q'.item = q.item /\ q'.is_data.state

\* the buffer holds a batch exactly when it has no space, and run_states is
\* suspended in put() only while a batch waits
OneBatchWaiting ==
  /\ q.is_data.state <=> ~q.is_space.state
  /\ task[Producer7] = "space_wait" => q.is_data.state
  /\ task[Producer7] # "lock_wait"

\* C36: in script_0_7 the demand batches are applied one at a time in the
\* order in which they were put into the DataBuffer: no transition of the
\* next batch starts before every transition of the batch in hand has
\* finished, and while a batch is in flight at most one batch waits in the
\* buffer, a further put() being suspended.
C36_BatchesInOrder ==
  /\ [](kind = "DataBuffer" => OneBatchWaiting)
  /\ [][kind = "DataBuffer" => OneAtATime /\ FurtherPutSuspends]_vars

\* C36 witness: a transition of the batch in hand is in flight, the next
\* batch, a different one, waits in the buffer and run_states is suspended
\* in the put() of a third.
C36_Witness ==
  /\ kind = "DataBuffer" /\ task[Consumer] = "gather"
  /\ \E id \in Servos : mv[id].pc = "loop"
  /\ q.is_data.state /\ q.item # demand
  /\ task[Producer7] = "space_wait"

\* (C37) In the versions that reuse the preallocated self.tasks list, what
\* a call hands to gather is exactly one operation per entry of the batch
\* of that call, in order: each stored by this call for the actuator named,
\* none left from an earlier call and none the None of __init__.
\* (script_0_9a, script_0_9b: the whole list is gathered, whatever the
\* size of the batch.)
GatheredIsBatch ==
  md.call > 0 =>
    /\ Len(md.gathered) = Len(md.batch)
    /\ \A i \in DOMAIN md.gathered :
         i \in DOMAIN md.batch /\ md.gathered[i].src = <<md.call, md.batch[i]>>
C37_GatherCurrentBatch == GatheredIsBatch

\* (C37) what does hold: a batch that names every actuator of the group is
\* gathered entry for entry, and get_states_db of script_0_8a always names
\* every pin
C37_FullBatchGathered ==
  (md.call > 0 /\ Len(md.batch) = Len(md.tasks)) => GatheredIsBatch

\* a full batch has been followed by a batch of one servo
C37_SubsetAfterFull ==
  /\ kind = "script_0_9a" /\ md.call = 2 /\ Len(md.batch) = 1
  /\ md.gathered[2].src # <<>> /\ md.gathered[2].src[1] = 1

\* script_0_8a has polled twice
C37_Witness8a == kind = "script_0_8a" /\ md.call = 2

\* (C39) encode_id_data and decode_id_data are inverse on the byte range:
\* for id in 0..63 and event in 0..3 the encoded value is in 0..255, no
\* other (id, event) pair encodes to it, and decoding it gives (id, event).
C39_EncodeDecodeInverse ==
  kind = "encode_id_data" =>
    /\ btn.stage # "new" =>
         /\ btn.info_byte \in 0 .. ByteMax
         /\ \A i \in ByteIds, e \in EventCodes :
              encode_id_data(i, e) = btn.info_byte => i = btn.id_ /\ e = btn.data
    /\ btn.stage = "decoded" => btn.decoded = <<btn.id_, btn.data>>

\* the largest pair has been encoded to the largest byte and decoded
C39_Witness ==
  /\ kind = "encode_id_data" /\ btn.stage = "decoded"
  /\ btn.id_ = 63 /\ btn.data = 3 /\ btn.info_byte = 255
  /\ btn.decoded = <<63, 3>>

====
